---------------------------- MODULE Spec2Model ----------------------------
(***************************************************************************)
(* Smart-Task-Manager: the rule-based classifier (src/lib/classification), *)
(* the in-memory task store (src/lib/taskStore), the useTasks hook and the *)
(* tasks edge function, as state machines.                                 *)
(*                                                                         *)
(* Texts are strings; TLC evaluates Len, \o, SubSeq, Head and Tail on      *)
(* strings, so a character of s is SubSeq(s, i, i) and every conversion    *)
(* (lowercasing, substring search, pattern matching) is computed character *)
(* by character.                                                           *)
(***************************************************************************)
EXTENDS Integers, Sequences, FiniteSets, TLC

VARIABLES
  lastIndex,         \* lastIndex of every module-level /g pattern of classification.ts
  suggestedActions,  \* the arrays of the module-level suggestedActions table
  pc,                \* position of the caller driving the classifier
  title,             \* arguments of the last classifyTask call
  description,
  result,            \* value returned by the last classifyTask call
  report,            \* value returned by runClassificationTests
  calls,             \* the classifyTask calls made so far by a caller that keeps the results
  mutations,         \* how often that caller has written to a result it holds
  tasks,             \* the module-level tasks array of taskStore.ts
  taskHistory,       \* the module-level taskHistory array of taskStore.ts
  dbTasks,           \* the rows of the table public.tasks
  dbHistory,         \* the rows of the table public.task_history
  dbLog,             \* the statements on public.tasks that changed a row, in order
  nextId,            \* the identifiers handed out so far, as a counter
  lastCall,          \* the last call or request and its outcome
  storeLog,          \* the task store calls that returned a task, in call order
  form,              \* the state of the TaskForm component
  formEvents,        \* how many events the form has handled
  dbNotifications,   \* the rows of the table public.notifications of the user
  notifications,     \* useNotifications: the notifications state
  unreadCount,       \* useNotifications: the unreadCount state
  notifFetches,      \* fetchNotifications calls awaiting their query
  notifEvents,       \* realtime events on notifications not yet delivered
  filters,           \* the filters useTasks is rendered with
  hookTasks,         \* useTasks: the tasks state
  counts,            \* useTasks: the counts state
  loading,           \* useTasks: the loading state
  fetches,           \* fetchTasks calls awaiting their query or their counts
  taskEvents         \* realtime events on tasks not yet delivered

classifierVars == <<lastIndex, suggestedActions>>
callerVars     == <<pc, title, description, result, report, calls, mutations>>
storeVars      == <<tasks, taskHistory, storeLog>>
dbVars         == <<dbTasks, dbHistory, dbLog>>
createVars     == <<storeVars, dbVars, nextId, lastCall>>
notifVars      == <<dbNotifications, notifications, unreadCount, notifFetches, notifEvents>>
fetchVars      == <<filters, hookTasks, counts, loading, fetches, taskEvents>>
formVars       == <<form, formEvents>>
uiVars         == <<formVars, notifVars, fetchVars>>

vars == <<lastIndex, suggestedActions, pc, title, description, result, report,
          calls, mutations, tasks, taskHistory, storeLog, dbTasks, dbHistory, dbLog,
          nextId, lastCall, form, formEvents, dbNotifications, notifications, unreadCount,
          notifFetches, notifEvents, filters, hookTasks, counts, loading, fetches,
          taskEvents>>

-----------------------------------------------------------------------------
(* Bounds                                                                  *)

\* words in title and description together
MaxWords == 2

\* classifyTask calls of the caller that keeps its results
MaxCalls == 3

\* writes of that caller to the results it holds
MaxMutations == 1

\* tasks created, in the task store and the database together
MaxTasks == 1

-----------------------------------------------------------------------------
(* Characters and strings                                                  *)

UpperChars == "ABCDEFGHIJKLMNOPQRSTUVWXYZ"
LowerChars == "abcdefghijklmnopqrstuvwxyz"
DigitChars == "0123456789"

CharAt(s, i) == SubSeq(s, i, i)

CharsOf(s) == {CharAt(s, i) : i \in 1..Len(s)}

UpperSet == CharsOf(UpperChars)
LowerSet == CharsOf(LowerChars)
DigitSet == CharsOf(DigitChars)

\* String.prototype.toLowerCase on one character
LowerOfUpper ==
  [c \in UpperSet |->
     CharAt(LowerChars, CHOOSE i \in 1..Len(UpperChars) : CharAt(UpperChars, i) = c)]

toLowerCaseChar(c) == IF c \in UpperSet THEN LowerOfUpper[c] ELSE c

\* mutant: the text is not lowercased
toLowerCaseIdentity(s) == s

RECURSIVE toLowerCase(_)
toLowerCase(s) ==
  IF s = "" THEN ""
  ELSE IF Len(s) = 1 THEN toLowerCaseChar(s)
  ELSE toLowerCase(SubSeq(s, 1, Len(s) \div 2))
       \o toLowerCase(SubSeq(s, Len(s) \div 2 + 1, Len(s)))

\* String.prototype.includes: keyword occurs as a substring of text
includes(text, keyword) ==
  \E i \in 0..(Len(text) - Len(keyword)) :
     SubSeq(text, i + 1, i + Len(keyword)) = keyword

\* First-seen order without repeats: Array.from(new Set(xs))
\* mutant: every added value is kept
ArrayFromSetKeepAll(xs) == xs

RECURSIVE ArrayFromSet(_)
ArrayFromSet(xs) ==
  IF xs = << >> THEN << >>
  ELSE LET init == ArrayFromSet(SubSeq(xs, 1, Len(xs) - 1))
           last == xs[Len(xs)]
       IN  IF \E i \in 1..Len(init) : init[i] = last THEN init
           ELSE Append(init, last)

-----------------------------------------------------------------------------
(* Types (src/types/task.ts)                                               *)

TaskCategory == {"scheduling", "finance", "technical", "safety", "general"}
TaskPriority == {"high", "medium", "low"}
TaskStatus   == {"pending", "in_progress", "completed"}

-----------------------------------------------------------------------------
(* Keyword tables (classification.ts)                                      *)

\* Object.entries(categoryKeywords) iterates in declaration order
categoryOrder == <<"scheduling", "finance", "technical", "safety", "general">>

categoryKeywords ==
  [scheduling |-> <<"meeting", "schedule", "call", "appointment", "deadline",
                    "calendar", "event", "reminder", "agenda">>,
   finance    |-> <<"payment", "invoice", "bill", "budget", "cost", "expense",
                    "money", "price", "financial", "revenue">>,
   technical  |-> <<"bug", "fix", "error", "install", "repair", "maintain",
                    "update", "deploy", "code", "system", "server">>,
   safety     |-> <<"safety", "hazard", "inspection", "compliance", "ppe",
                    "risk", "emergency", "warning", "secure">>,
   general    |-> << >>]

priorityKeywords ==
  [high   |-> <<"urgent", "asap", "immediately", "today", "critical",
                "emergency", "now", "priority", "important">>,
   medium |-> <<"soon", "this week", "important", "needed", "should">>,
   low    |-> <<"whenever", "low priority", "eventually", "later", "someday">>]

\* The module-level table as written; the variable suggestedActions holds the
\* arrays as they are now
suggestedActionsTable ==
  [scheduling |-> <<"Block calendar", "Send invite", "Prepare agenda", "Set reminder">>,
   finance    |-> <<"Check budget", "Get approval", "Generate invoice", "Update records">>,
   technical  |-> <<"Diagnose issue", "Check resources", "Assign technician", "Document fix">>,
   safety     |-> <<"Conduct inspection", "File report", "Notify supervisor", "Update checklist">>,
   general    |-> <<"Review requirements", "Assign team member", "Set deadline", "Create subtasks">>]

-----------------------------------------------------------------------------
(* classifyCategory                                                        *)

\* the inner loop: score++ for every keyword the text includes
RECURSIVE KeywordScore(_, _, _)
KeywordScore(lowerText, keywords, k) ==
  IF k > Len(keywords) THEN 0
  ELSE (IF includes(lowerText, keywords[k]) THEN 1 ELSE 0)
       + KeywordScore(lowerText, keywords, k + 1)

\* mutant: score >= maxScore, the last category with the best score wins
RECURSIVE CategoryLoopLastWins(_, _, _, _)
CategoryLoopLastWins(lowerText, k, maxScore, bestCategory) ==
  IF k > Len(categoryOrder) THEN bestCategory
  ELSE IF categoryOrder[k] # "general"
          /\ KeywordScore(lowerText, categoryKeywords[categoryOrder[k]], 1) >= maxScore
       THEN CategoryLoopLastWins(lowerText, k + 1,
                                 KeywordScore(lowerText, categoryKeywords[categoryOrder[k]], 1),
                                 categoryOrder[k])
       ELSE CategoryLoopLastWins(lowerText, k + 1, maxScore, bestCategory)

\* the outer loop from entry k on, carrying maxScore and bestCategory
RECURSIVE CategoryLoop(_, _, _, _)
CategoryLoop(lowerText, k, maxScore, bestCategory) ==
  IF k > Len(categoryOrder) THEN bestCategory
  ELSE LET category == categoryOrder[k]
           score    == KeywordScore(lowerText, categoryKeywords[category], 1)
       IN  IF category = "general"
           THEN CategoryLoop(lowerText, k + 1, maxScore, bestCategory)
           ELSE IF score > maxScore
                THEN CategoryLoop(lowerText, k + 1, score, category)
                ELSE CategoryLoop(lowerText, k + 1, maxScore, bestCategory)

\* mutant: bestCategory declared without its initial value 'general'
classifyCategoryNoDefault(text) == CategoryLoop(toLowerCase(text), 1, 0, "undefined")

\* mutant: the keywords are looked up in the text as written
classifyCategoryCaseSensitive(text) == CategoryLoop(text, 1, 0, "general")

classifyCategory(text) == CategoryLoop(toLowerCase(text), 1, 0, "general")

-----------------------------------------------------------------------------
(* classifyPriority                                                        *)

AnyKeyword(lowerText, keywords) ==
  \E k \in 1..Len(keywords) : includes(lowerText, keywords[k])

\* mutant: the low keywords are checked first
classifyPriorityLowFirst(text) ==
  IF AnyKeyword(toLowerCase(text), priorityKeywords.low) THEN "low"
  ELSE IF AnyKeyword(toLowerCase(text), priorityKeywords.high) THEN "high"
  ELSE IF AnyKeyword(toLowerCase(text), priorityKeywords.medium) THEN "medium"
  ELSE "low"

\* mutant: the medium keywords are checked before the high ones
classifyPriorityMediumFirst(text) ==
  IF AnyKeyword(toLowerCase(text), priorityKeywords.medium) THEN "medium"
  ELSE IF AnyKeyword(toLowerCase(text), priorityKeywords.high) THEN "high"
  ELSE "low"

\* mutant: the default of the edge function's classifier, medium
classifyPriorityDefaultMedium(text) ==
  IF AnyKeyword(toLowerCase(text), priorityKeywords.high) THEN "high"
  ELSE "medium"

classifyPriority(text) ==
  LET lowerText == toLowerCase(text)
  IN  IF AnyKeyword(lowerText, priorityKeywords.high) THEN "high"
      ELSE IF AnyKeyword(lowerText, priorityKeywords.medium) THEN "medium"
      ELSE "low"

-----------------------------------------------------------------------------
(* Regular expressions: the pattern language the module's literals use,    *)
(* and the backtracking matcher.                                           *)

Str(s)           == [t |-> "str", s |-> s]                \* literal characters
Cls(c)           == [t |-> "cls", c |-> c]                \* a character class
Cat(xs)          == [t |-> "cat", xs |-> xs]              \* concatenation
Alt(xs)          == [t |-> "alt", xs |-> xs]              \* a|b|c, in order
Rep(x, min, max) == [t |-> "rep", x |-> x, min |-> min, max |-> max]  \* greedy; max -1: unbounded
Opt(x)           == Rep(x, 0, 1)                          \* x?
Plus(x)          == Rep(x, 1, -1)                         \* x+
Star(x)          == Rep(x, 0, -1)                         \* x*
Wb               == [t |-> "wb"]                          \* \b
Grp(n, x)        == [t |-> "grp", n |-> n, x |-> x]       \* capturing group n
AltStr(ws)       == Alt([k \in 1..Len(ws) |-> Str(ws[k])])

AlnumSet == UpperSet \cup LowerSet \cup DigitSet
WordSet  == AlnumSet \cup {"_"}

IsWhiteSpace(c) == c = " "
IsWordChar(c)   == c \in WordSet

\* Under the i flag pattern and text characters are compared after case
\* canonicalization. The matcher is handed the canonical text (Canonical) and
\* the pattern with canonical literals (CanonicalAst); offsets are unchanged.
Canonical(text, ci) == IF ci THEN toLowerCase(text) ELSE text

RECURSIVE CanonicalAst(_)
CanonicalAst(node) ==
  CASE node.t = "str" -> [node EXCEPT !.s = toLowerCase(@)]
    [] node.t \in {"cat", "alt"} ->
         [node EXCEPT !.xs = [k \in 1..Len(@) |-> CanonicalAst(@[k])]]
    [] node.t \in {"rep", "grp"} -> [node EXCEPT !.x = CanonicalAst(@)]
    [] OTHER -> node

\* a pattern literal /ast/g (gi when ci)
RegExp(id, ci, ast) ==
  [id |-> id, ci |-> ci, ast |-> IF ci THEN CanonicalAst(ast) ELSE ast]

\* membership of the (canonical, when ci) character c in class cls: under the
\* i flag a letter is in [a-z] or [A-Z] when either of its cases is
InClass(cls, c, ci) ==
  CASE cls = "digit" -> c \in DigitSet
    [] cls = "space" -> IsWhiteSpace(c)
    [] cls = "word"  -> IsWordChar(c)
    [] cls = "lower" -> c \in LowerSet
    [] cls = "upper" -> IF ci THEN c \in LowerSet ELSE c \in UpperSet
    [] cls = "alnum" -> c \in AlnumSet

\* \b between offsets i and i+1 (text[i] and text[i+1], 1-based)
AtWordBoundary(text, i) ==
  LET before == i >= 1 /\ IsWordChar(CharAt(text, i))
      after  == i < Len(text) /\ IsWordChar(CharAt(text, i + 1))
  IN  before # after

NoCapture == [cs |-> -1, ce |-> -1]
Fail      == [e |-> -1, cap |-> NoCapture]

\* bookkeeping nodes the matcher pushes for itself
Progress(from)  == [t |-> "progress", from |-> from]           \* an iteration consumed something
EndGrp(n, from) == [t |-> "endgrp", n |-> n, from |-> from]    \* group n, opened at from, closes

\* Backtracking match of the nodes todo, one after the other, from offset i of
\* text, with group 1 captured as cap so far: the first way the engine finds
\* ([e: end offset, cap: group 1]) or Fail. Alternatives are tried in order,
\* repetitions longest first.
RECURSIVE Match(_, _, _, _, _)
Match(todo, text, ci, i, cap) ==
  IF todo = << >> THEN [e |-> i, cap |-> cap]
  ELSE
    LET node == todo[1]
        rest == Tail(todo)
    IN
    CASE node.t = "str" ->
           IF i + Len(node.s) <= Len(text) /\ SubSeq(text, i + 1, i + Len(node.s)) = node.s
           THEN Match(rest, text, ci, i + Len(node.s), cap) ELSE Fail
      [] node.t = "cls" ->
           IF i < Len(text) /\ InClass(node.c, CharAt(text, i + 1), ci)
           THEN Match(rest, text, ci, i + 1, cap) ELSE Fail
      [] node.t = "wb" ->
           IF AtWordBoundary(text, i) THEN Match(rest, text, ci, i, cap) ELSE Fail
      [] node.t = "cat" -> Match(node.xs \o rest, text, ci, i, cap)
      [] node.t = "alt" ->
           IF \A k \in 1..Len(node.xs) :
                 Match(<<node.xs[k]>> \o rest, text, ci, i, cap) = Fail
           THEN Fail
           ELSE Match(<<node.xs[CHOOSE k \in 1..Len(node.xs) :
                                  /\ Match(<<node.xs[k]>> \o rest, text, ci, i, cap) # Fail
                                  /\ \A j \in 1..(k - 1) :
                                        Match(<<node.xs[j]>> \o rest, text, ci, i, cap) = Fail]>>
                      \o rest, text, ci, i, cap)
      [] node.t = "rep" ->
           LET again == Rep(node.x, IF node.min > 0 THEN node.min - 1 ELSE 0,
                            IF node.max > 0 THEN node.max - 1 ELSE node.max)
               more  == IF node.max = 0 THEN Fail
                        ELSE Match(<<node.x, Progress(i), again>> \o rest, text, ci, i, cap)
           IN  IF more # Fail THEN more
               ELSE IF node.min <= 0 THEN Match(rest, text, ci, i, cap)
               ELSE Fail
      [] node.t = "progress" ->
           IF i > node.from THEN Match(rest, text, ci, i, cap) ELSE Fail
      [] node.t = "grp" -> Match(<<node.x, EndGrp(node.n, i)>> \o rest, text, ci, i, cap)
      [] node.t = "endgrp" ->
           Match(rest, text, ci, i,
                 IF node.n = 1 THEN [cs |-> node.from, ce |-> i] ELSE cap)

-----------------------------------------------------------------------------
(* The pattern literals of classification.ts                               *)

Weekdays == <<"monday", "tuesday", "wednesday", "thursday", "friday",
              "saturday", "sunday">>
Months   == <<"jan", "feb", "mar", "apr", "may", "jun", "jul", "aug", "sep",
              "oct", "nov", "dec">>
Digit    == Cls("digit")

\* \d{1,2}<sep>\d{1,2}(<sep>\d{2,4})?
NumericDate(sep) ==
  Cat(<<Wb, Rep(Digit, 1, 2), Str(sep), Rep(Digit, 1, 2),
        Opt(Grp(1, Cat(<<Str(sep), Rep(Digit, 2, 4)>>))), Wb>>)

datePatterns == <<
  \* /\b(today|tomorrow|yesterday)\b/gi
  RegExp("date1", TRUE,
         Cat(<<Wb, Grp(1, AltStr(<<"today", "tomorrow", "yesterday">>)), Wb>>)),
  \* /\b(monday|tuesday|wednesday|thursday|friday|saturday|sunday)\b/gi
  RegExp("date2", TRUE, Cat(<<Wb, Grp(1, AltStr(Weekdays)), Wb>>)),
  \* /\b\d{1,2}\/\d{1,2}(\/\d{2,4})?\b/g
  RegExp("date3", FALSE, NumericDate("/")),
  \* /\b\d{1,2}-\d{1,2}(-\d{2,4})?\b/g
  RegExp("date4", FALSE, NumericDate("-")),
  \* /\b(jan|feb|...|dec)[a-z]* \d{1,2}(,? \d{4})?\b/gi
  RegExp("date5", TRUE,
         Cat(<<Wb, Grp(1, AltStr(Months)), Star(Cls("lower")), Str(" "),
               Rep(Digit, 1, 2),
               Opt(Grp(2, Cat(<<Opt(Str(",")), Str(" "), Rep(Digit, 4, 4)>>))),
               Wb>>)),
  \* /\bthis (week|month|year)\b/gi
  RegExp("date6", TRUE,
         Cat(<<Wb, Str("this "), Grp(1, AltStr(<<"week", "month", "year">>)), Wb>>)),
  \* /\bnext (week|month|monday|tuesday|wednesday|thursday|friday)\b/gi
  RegExp("date7", TRUE,
         Cat(<<Wb, Str("next "),
               Grp(1, AltStr(<<"week", "month", "monday", "tuesday", "wednesday",
                               "thursday", "friday">>)),
               Wb>>))
  >>

\* [A-Z][a-z]+
CapitalizedWord == Cat(<<Cls("upper"), Plus(Cls("lower"))>>)

personPatterns == <<
  \* /(?:with|by|assign(?:ed)? to|contact|notify|tell|inform|call)\s+([A-Z][a-z]+(?:\s+[A-Z][a-z]+)?)/g
  RegExp("person1", FALSE,
         Cat(<<Alt(<<Str("with"), Str("by"),
                     Cat(<<Str("assign"), Opt(Str("ed")), Str(" to")>>),
                     Str("contact"), Str("notify"), Str("tell"), Str("inform"),
                     Str("call")>>),
               Plus(Cls("space")),
               Grp(1, Cat(<<CapitalizedWord,
                            Opt(Cat(<<Plus(Cls("space")), CapitalizedWord>>))>>))
             >>)),
  \* /@(\w+)/g
  RegExp("person2", FALSE, Cat(<<Str("@"), Grp(1, Plus(Cls("word")))>>))
  >>

locationPatterns == <<
  \* /(?:at|in|to|from|room|office|building|site)\s+([A-Z][a-z]+(?:\s+[A-Z][a-z]+)*)/g
  RegExp("location1", FALSE,
         Cat(<<AltStr(<<"at", "in", "to", "from", "room", "office", "building", "site">>),
               Plus(Cls("space")),
               Grp(1, Cat(<<CapitalizedWord,
                            Star(Cat(<<Plus(Cls("space")), CapitalizedWord>>))>>))
             >>)),
  \* /(?:room|office|building|site)\s+([A-Za-z0-9]+)/gi
  RegExp("location2", TRUE,
         Cat(<<AltStr(<<"room", "office", "building", "site">>),
               Plus(Cls("space")),
               Grp(1, Plus(Cls("alnum")))>>))
  >>

actionVerbPatterns == <<
  \* /\b(schedule|create|...|deploy)\b/gi
  RegExp("verb1", TRUE,
         Cat(<<Wb,
               Grp(1, AltStr(<<"schedule", "create", "review", "complete", "send",
                               "call", "email", "update", "fix", "check", "prepare",
                               "submit", "approve", "cancel", "organize", "setup",
                               "plan", "meet", "discuss", "analyze", "implement",
                               "deploy">>)),
               Wb>>))
  >>

PatternIds == {"date1", "date2", "date3", "date4", "date5", "date6", "date7",
               "person1", "person2", "location1", "location2", "verb1"}

-----------------------------------------------------------------------------
(* RegExp.prototype.exec and String.prototype.match for a /g pattern.      *)
(* An operator that loops is split in two: the loop head, and the step     *)
(* that receives what the head computed (r, m, c) as an argument.          *)

NoMatch == [index |-> -1, end |-> -1, cap |-> NoCapture]

\* the leftmost match of pattern in the canonical text ctext at or after offset
\* i: the engine tries the offsets i, i+1, ... in turn and stops at the first
\* where the pattern matches (hits: the offsets where it does)
MatchAt(i, m) == [index |-> i, end |-> m.e, cap |-> m.cap]

SearchStep(pattern, ctext, hits) ==
  IF hits = {} THEN NoMatch
  ELSE MatchAt(CHOOSE j \in hits : \A k \in hits : j <= k,
               Match(<<pattern.ast>>, ctext, pattern.ci,
                     CHOOSE j \in hits : \A k \in hits : j <= k, NoCapture))

SearchFrom(pattern, ctext, i) ==
  SearchStep(pattern, ctext,
             {j \in i..Len(ctext) :
                Match(<<pattern.ast>>, ctext, pattern.ci, j, NoCapture) # Fail})

\* what exec returns for the search result m: the match (or NoMatch for null)
\* and the lastIndex it leaves
ExecResult(m) == [match |-> m, lastIndex |-> IF m = NoMatch THEN 0 ELSE m.end]

\* pattern.exec(text) with the pattern's lastIndex at li
RegExpExec(pattern, text, li) ==
  ExecResult(IF li > Len(text) THEN NoMatch
             ELSE SearchFrom(pattern, Canonical(text, pattern.ci), li))

\* the loop of text.match(pattern): exec until null, collecting match[0]
RECURSIVE MatchLoop(_, _, _, _)
RECURSIVE MatchLoopStep(_, _, _, _)
MatchLoop(pattern, text, li, acc) ==
  MatchLoopStep(pattern, text, acc, RegExpExec(pattern, text, li))

MatchLoopStep(pattern, text, acc, r) ==
  IF r.match = NoMatch THEN [matches |-> acc, lastIndex |-> r.lastIndex]
  ELSE MatchLoop(pattern, text,
                 IF r.match.end = r.match.index THEN r.lastIndex + 1 ELSE r.lastIndex,
                 Append(acc, SubSeq(text, r.match.index + 1, r.match.end)))

\* mutant: pattern.exec(text) once, from wherever lastIndex was left
StringMatchExecOnce(text, pattern, li) ==
  [matches |-> IF RegExpExec(pattern, text, li).match = NoMatch THEN << >>
               ELSE <<SubSeq(text, RegExpExec(pattern, text, li).match.index + 1,
                             RegExpExec(pattern, text, li).match.end)>>,
   lastIndex |-> RegExpExec(pattern, text, li).lastIndex]

\* text.match(pattern) with the g flag: lastIndex is set to 0 first, whatever
\* an earlier use left in it (li); matches << >> stands for null
StringMatch(text, pattern, li) == MatchLoop(pattern, text, 0, << >>)

RECURSIVE trim(_)
trim(s) ==
  IF s = "" THEN s
  ELSE IF IsWhiteSpace(Head(s)) THEN trim(Tail(s))
  ELSE IF IsWhiteSpace(CharAt(s, Len(s))) THEN trim(SubSeq(s, 1, Len(s) - 1))
  ELSE s

\* mutant: match[0], the whole match
Group1WholeMatch(text, r) == SubSeq(text, r.match.index + 1, r.match.end)

\* match[1] of the exec result r ("" when the group did not take part)
Group1(text, r) ==
  IF r.match.cap.cs < 0 THEN "" ELSE SubSeq(text, r.match.cap.cs + 1, r.match.cap.ce)

\* while ((match = regex.exec(text)) !== null) { if (match[1]) add(match[1].trim()) }
\* (no pattern of the module matches the empty string, so lastIndex advances)
RECURSIVE ExecLoop(_, _, _, _)
RECURSIVE ExecLoopStep(_, _, _, _)
ExecLoop(regex, text, li, acc) ==
  ExecLoopStep(regex, text, acc, RegExpExec(regex, text, li))

ExecLoopStep(regex, text, acc, r) ==
  IF r.match = NoMatch THEN acc
  ELSE ExecLoop(regex, text, r.lastIndex,
                IF Group1(text, r) # "" THEN Append(acc, trim(Group1(text, r))) ELSE acc)

\* new RegExp(pattern.source, pattern.flags): same pattern, its own lastIndex = 0
NewRegExp(pattern) == [pattern |-> pattern, lastIndex |-> 0]

-----------------------------------------------------------------------------
(* The four extractors. extractDates and extractActionVerbs use the        *)
(* module-level patterns themselves: li is the patterns' lastIndex when    *)
(* the extractor is entered, and they return their array (out) and the     *)
(* lastIndex values they leave. extractPeople and extractLocations work on *)
(* copies.                                                                 *)

\* mutant: the matches are added as written
MapLowerAsWritten(xs) == xs

RECURSIVE MapLower(_)
MapLower(xs) ==
  IF xs = << >> THEN << >> ELSE <<toLowerCase(Head(xs))>> \o MapLower(Tail(xs))

\* patterns.forEach(pattern => text.match(pattern) ... add(match.toLowerCase()))
RECURSIVE MatchEach(_, _, _, _, _)
RECURSIVE MatchEachStep(_, _, _, _, _, _)
MatchEach(patterns, k, text, li, acc) ==
  IF k > Len(patterns) THEN [out |-> ArrayFromSet(acc), lastIndex |-> li]
  ELSE MatchEachStep(patterns, k, text, li, acc,
                     StringMatch(text, patterns[k], li[patterns[k].id]))

\* const matches = text.match(pattern); if (matches) matches.forEach(add lowercased)
MatchEachStep(patterns, k, text, li, acc, r) ==
  IF r.matches = << >>
  THEN MatchEach(patterns, k + 1, text, [li EXCEPT ![patterns[k].id] = r.lastIndex], acc)
  ELSE MatchEach(patterns, k + 1, text, [li EXCEPT ![patterns[k].id] = r.lastIndex],
                 acc \o MapLower(r.matches))

\* patterns.forEach(pattern => { regex = new RegExp(...); while (exec) add(match[1].trim()) })
RECURSIVE ExecEach(_, _, _, _)
ExecEach(patterns, k, text, acc) ==
  IF k > Len(patterns) THEN ArrayFromSet(acc)
  ELSE ExecEach(patterns, k + 1, text,
                acc \o ExecLoop(NewRegExp(patterns[k]).pattern, text,
                                NewRegExp(patterns[k]).lastIndex, << >>))

extractDates(text, li) == MatchEach(datePatterns, 1, text, li, << >>)

\* mutant: the cue pattern with the i flag
extractPeopleIgnoreCase(text) ==
  ExecEach(<<RegExp("person1", TRUE, personPatterns[1].ast), personPatterns[2]>>,
           1, text, << >>)

extractPeople(text) == ExecEach(personPatterns, 1, text, << >>)

extractLocations(text) == ExecEach(locationPatterns, 1, text, << >>)

\* mutant: the verb pattern without its two \b
extractActionVerbsInsideWords(text, li) ==
  MatchEach(<<RegExp("verb1", TRUE, actionVerbPatterns[1].ast.xs[2])>>, 1, text, li, << >>)

extractActionVerbs(text, li) == MatchEach(actionVerbPatterns, 1, text, li, << >>)

-----------------------------------------------------------------------------
(* classifyTask                                                            *)

\* A reference to the array suggestedActions[category]: the returned record
\* holds the table's own array, not a copy
ArrayRef(category) == [ref |-> category]

\* the array a reference denotes now
Deref(r) == suggestedActions[r.ref]

\* mutant: title and description joined without the space
fullTextOfNoSpace(t, d) == t \o d

\* `${title} ${description}`
fullTextOf(t, d) == t \o " " \o d

\* mutant: the general list whatever the category
ClassificationResultGeneralActions(category, priority, dates, people, locations, actionVerbs) ==
  [category |-> category,
   priority |-> priority,
   extracted_entities |->
     [dates |-> dates, people |-> people,
      locations |-> locations, actionVerbs |-> actionVerbs],
   suggested_actions |-> ArrayRef("general")]

\* the returned record, from its parts
ClassificationResult(category, priority, dates, people, locations, actionVerbs) ==
  [category |-> category,
   priority |-> priority,
   extracted_entities |->
     [dates |-> dates, people |-> people,
      locations |-> locations, actionVerbs |-> actionVerbs],
   suggested_actions |-> ArrayRef(category)]

\* classifyTask after extractDates returned dates and extractActionVerbs verbs
ClassifyWith(fullText, dates, verbs) ==
  [result |-> ClassificationResult(classifyCategory(fullText), classifyPriority(fullText),
                                   dates.out, extractPeople(fullText),
                                   extractLocations(fullText), verbs.out),
   lastIndex |-> verbs.lastIndex]

ClassifyWithDates(fullText, dates) ==
  ClassifyWith(fullText, dates, extractActionVerbs(fullText, dates.lastIndex))

\* classifyTask(title, description) entered with lastIndex li: the returned
\* record (result) and the lastIndex values left behind
classifyTask(t, d, li) ==
  ClassifyWithDates(fullTextOf(t, d), extractDates(fullTextOf(t, d), li))

-----------------------------------------------------------------------------
(* runClassificationTests                                                  *)

tests == <<
  [name |-> "Scheduling category detection",
   title |-> "Schedule meeting with team", description |-> "Discuss project updates",
   expected |-> [category |-> "scheduling"]],
  [name |-> "Finance category detection",
   title |-> "Review invoice", description |-> "Check the budget allocation for Q4",
   expected |-> [category |-> "finance"]],
  [name |-> "High priority detection",
   title |-> "Urgent fix needed", description |-> "Critical bug in production",
   expected |-> [priority |-> "high"]],
  [name |-> "Technical category detection",
   title |-> "Fix server error", description |-> "Deploy hotfix to production",
   expected |-> [category |-> "technical"]],
  [name |-> "Safety category detection",
   title |-> "Safety inspection required",
   description |-> "Check compliance with PPE regulations",
   expected |-> [category |-> "safety"]] >>

\* the body of tests.forEach for one test, c being what classifyTask returned
TestPassed(test, c) ==
  /\ ("category" \in DOMAIN test.expected => c.result.category = test.expected.category)
  /\ ("priority" \in DOMAIN test.expected => c.result.priority = test.expected.priority)

\* passed++; results.push(the test's name, ticked)
Passed(acc, test) ==
  [acc EXCEPT !.passed = @ + 1, !.results = Append(@, <<"pass", test.name>>)]

\* failed++; results.push(the test's name, crossed, with what was got)
Failed(acc, test, c) ==
  [acc EXCEPT !.failed = @ + 1,
              !.results = Append(@, <<"fail", test.name, c.result.category,
                                     c.result.priority>>)]

\* tests.forEach from test k on, carrying {passed, failed, results} and lastIndex
RECURSIVE TestLoop(_, _, _)
RECURSIVE TestLoopStep(_, _, _)
TestLoop(k, acc, li) ==
  IF k > Len(tests) THEN [report |-> acc, lastIndex |-> li]
  ELSE TestLoopStep(k, acc, classifyTask(tests[k].title, tests[k].description, li))

TestLoopStep(k, acc, c) ==
  IF TestPassed(tests[k], c)
  THEN TestLoop(k + 1, Passed(acc, tests[k]), c.lastIndex)
  ELSE TestLoop(k + 1, Failed(acc, tests[k], c), c.lastIndex)

runClassificationTests(li) ==
  TestLoop(1, [passed |-> 0, failed |-> 0, results |-> << >>], li)

-----------------------------------------------------------------------------
(* Inputs: title and description are words of a vocabulary joined by       *)
(* single spaces, at most MaxWords words in the two together.              *)

WordSeqs(vocabulary, n) == [1..n -> vocabulary]

RECURSIVE Join(_)
Join(ws) ==
  IF ws = << >> THEN ""
  ELSE IF Len(ws) = 1 THEN ws[1]
  ELSE ws[1] \o " " \o Join(Tail(ws))

InputsOver(vocabulary) ==
  UNION {{<<Join(a), Join(b)>> : a \in WordSeqs(vocabulary, n[1]),
                                 b \in WordSeqs(vocabulary, n[2])} :
         n \in {m \in (0..MaxWords) \X (0..MaxWords) : m[1] + m[2] <= MaxWords}}

\* keywords of three categories and two priorities, in mixed case and inside
\* longer words, and a word no table knows
KeywordVocabulary ==
  {"meeting", "Invoice", "Bugfixes", "Urgent", "soon", "emergency", "hello"}

KeywordInputs == InputsOver(KeywordVocabulary)

-----------------------------------------------------------------------------
(* State                                                                   *)

NoResult == [category |-> "", priority |-> ""]
NoReport == [passed |-> -1, failed |-> -1, results |-> << >>]

InitClassifier ==
  /\ lastIndex = [p \in PatternIds |-> 0]
  /\ suggestedActions = suggestedActionsTable

InitCaller ==
  /\ pc = "idle"
  /\ title = ""
  /\ description = ""
  /\ result = NoResult
  /\ report = NoReport
  /\ calls = << >>
  /\ mutations = 0

NoCall == [op |-> "", status |-> ""]

InitStore ==
  /\ tasks = << >>
  /\ taskHistory = << >>
  /\ storeLog = << >>

InitDb ==
  /\ dbTasks = << >>
  /\ dbHistory = << >>
  /\ dbLog = << >>

Undefined == "undefined"
Null      == "null"

\* the classification state of TaskForm being null, and its task prop being
\* null or absent
NoClassification == [classification |-> Null]
NoTask == [task |-> Null]

\* TaskForm: the initial values of its useState calls, the form not editing
EmptyForm ==
  [title |-> "", description |-> "", assignedTo |-> "", dueDate |-> Undefined,
   classification |-> NoClassification, overrideCategory |-> Null,
   overridePriority |-> Null, status |-> "pending", task |-> NoTask]

NoFilters == [status |-> Undefined, category |-> Undefined, priority |-> Undefined,
              search |-> Undefined]

NoCounts == [pending |-> 0, in_progress |-> 0, completed |-> 0]

\* useNotifications mounted for a signed-in user, its initial fetch resolved
InitNotifications ==
  /\ dbNotifications = << >>
  /\ notifications = << >>
  /\ unreadCount = 0
  /\ notifFetches = << >>
  /\ notifEvents = << >>

\* useTasks mounted for a signed-in user without filters, its initial fetch
\* resolved
InitFetch ==
  /\ filters = NoFilters
  /\ hookTasks = << >>
  /\ counts = NoCounts
  /\ loading = FALSE
  /\ fetches = << >>
  /\ taskEvents = 0

Init ==
  /\ InitClassifier
  /\ InitCaller
  /\ InitStore
  /\ InitDb
  /\ nextId = 1
  /\ lastCall = NoCall
  /\ form = EmptyForm
  /\ formEvents = 0
  /\ InitNotifications
  /\ InitFetch

-----------------------------------------------------------------------------
(* SpecClassify: one caller makes one call, of classifyTask on an input of *)
(* KeywordInputs or of runClassificationTests.                             *)

\* a caller calls classifyTask(t, d) and keeps what it returns
ClassifyTask(t, d) ==
  \E c \in {classifyTask(t, d, lastIndex)} :
     /\ title' = t
     /\ description' = d
     /\ result' = c.result
     /\ lastIndex' = c.lastIndex
     /\ UNCHANGED suggestedActions

CallClassifyTask ==
  /\ pc = "idle"
  /\ \E in \in KeywordInputs : ClassifyTask(in[1], in[2])
  /\ pc' = "returned"
  /\ UNCHANGED <<report, calls, mutations>>
  /\ UNCHANGED <<createVars, uiVars>>

CallRunClassificationTests ==
  /\ pc = "idle"
  /\ \E r \in {runClassificationTests(lastIndex)} :
        /\ report' = r.report
        /\ lastIndex' = r.lastIndex
  /\ pc' = "tested"
  /\ UNCHANGED <<suggestedActions, title, description, result, calls, mutations>>
  /\ UNCHANGED <<createVars, uiVars>>

NextClassify == CallClassifyTask \/ CallRunClassificationTests

SpecClassify == Init /\ [][NextClassify]_vars

-----------------------------------------------------------------------------
(* SpecCalls: a caller calls classifyTask repeatedly, keeps every result   *)
(* and may write to the arrays of the results it holds.                    *)

\* a date, a verb, a cue word with a name; the same words in another order;
\* and the empty input
CallInputs == {<<"", "">>, <<"Fix today", "">>, <<"call", "Bob today">>}

\* What one call returned: result is the object the caller holds (its arrays
\* may since have been written to), returned the value at the moment of
\* return, actions the content of its suggested_actions array at that moment.
CallRecord(t, d, r) ==
  [title |-> t, description |-> d, result |-> r, returned |-> r,
   actions |-> Deref(r.suggested_actions)]

CallAgain ==
  /\ Len(calls) < MaxCalls
  /\ \E in \in CallInputs :
        /\ ClassifyTask(in[1], in[2])
        /\ calls' = Append(calls, CallRecord(in[1], in[2], result'))
  /\ pc' = "returned"
  /\ UNCHANGED <<report, mutations>>
  /\ UNCHANGED <<createVars, uiVars>>

\* calls[k].result.suggested_actions.push("Custom step")
PushSuggestedAction ==
  /\ mutations < MaxMutations
  /\ \E k \in 1..Len(calls) :
        suggestedActions' =
          [suggestedActions EXCEPT ![calls[k].result.suggested_actions.ref] =
             Append(@, "Custom step")]
  /\ mutations' = mutations + 1
  /\ UNCHANGED <<lastIndex, pc, title, description, result, report, calls>>
  /\ UNCHANGED <<createVars, uiVars>>

\* calls[k].result.extracted_entities.dates.push("someday")
PushExtractedDate ==
  /\ mutations < MaxMutations
  /\ \E k \in 1..Len(calls) :
        calls' = [calls EXCEPT ![k].result.extracted_entities.dates =
                                  Append(@, "someday")]
  /\ mutations' = mutations + 1
  /\ UNCHANGED <<lastIndex, suggestedActions, pc, title, description, result, report>>
  /\ UNCHANGED <<createVars, uiVars>>

NextCalls == CallAgain \/ PushSuggestedAction \/ PushExtractedDate

SpecCalls == Init /\ [][NextCalls]_vars

-----------------------------------------------------------------------------
(* The classifier of the tasks edge function (supabase/functions/tasks)    *)

\* Object.entries(categoryKeywords): the keys in insertion order
edgeCategoryOrder == <<"scheduling", "finance", "technical", "safety">>

edgeCategoryKeywords ==
  [scheduling |-> <<"meeting", "schedule", "calendar", "appointment", "call",
                    "deadline", "today", "tomorrow", "weekly", "daily">>,
   finance    |-> <<"budget", "invoice", "payment", "expense", "cost", "price",
                    "money", "financial", "revenue", "profit">>,
   technical  |-> <<"bug", "fix", "deploy", "code", "server", "database", "api",
                    "error", "update", "software">>,
   safety     |-> <<"safety", "hazard", "compliance", "inspection", "ppe",
                    "emergency", "risk", "incident", "audit">>]

edgePriorityKeywords ==
  [high   |-> <<"urgent", "critical", "asap", "immediately", "emergency",
                "priority", "important", "crucial">>,
   medium |-> <<"soon", "moderate", "normal", "standard">>,
   low    |-> <<"whenever", "eventually", "low priority", "minor", "optional">>]

edgeSuggestedActionsMap ==
  [scheduling |-> <<"Add to calendar", "Send invite", "Set reminder">>,
   finance    |-> <<"Review budget", "Send invoice", "Approve payment">>,
   technical  |-> <<"Create ticket", "Code review", "Deploy fix">>,
   safety     |-> <<"File report", "Schedule inspection", "Update documentation">>,
   general    |-> <<"Add notes", "Set deadline", "Assign team member">>]

\* /(?:contact|call|meet|email)\s+([a-z]+(?:\s+[a-z]+)?)/gi
edgePeoplePattern ==
  RegExp("edgePeople", TRUE,
         Cat(<<AltStr(<<"contact", "call", "meet", "email">>),
               Plus(Cls("space")),
               Grp(1, Cat(<<Plus(Cls("lower")),
                            Opt(Cat(<<Plus(Cls("space")), Plus(Cls("lower"))>>))>>))
             >>))

\* /(?:today|tomorrow|monday|...|sunday|next week)/gi
edgeDatesPattern ==
  RegExp("edgeDates", TRUE,
         AltStr(<<"today", "tomorrow">> \o Weekdays \o <<"next week">>))

\* the category loop from entry k on, carrying maxScore and category
RECURSIVE edgeCategoryLoop(_, _, _, _)
edgeCategoryLoop(text, k, maxScore, category) ==
  IF k > Len(edgeCategoryOrder) THEN category
  ELSE IF KeywordScore(text, edgeCategoryKeywords[edgeCategoryOrder[k]], 1) > maxScore
       THEN edgeCategoryLoop(text, k + 1,
                             KeywordScore(text, edgeCategoryKeywords[edgeCategoryOrder[k]], 1),
                             edgeCategoryOrder[k])
       ELSE edgeCategoryLoop(text, k + 1, maxScore, category)

\* the priority loop: the first of high, medium, low with a keyword in the
\* text, medium when there is none
edgeClassifyPriority(text) ==
  IF AnyKeyword(text, edgePriorityKeywords.high) THEN "high"
  ELSE IF AnyKeyword(text, edgePriorityKeywords.medium) THEN "medium"
  ELSE IF AnyKeyword(text, edgePriorityKeywords.low) THEN "low"
  ELSE "medium"

\* the record returned for the lowercased text and its category; both
\* patterns are literals evaluated in the call, text.match gives the whole
\* matches
edgeClassification(text, category) ==
  [category |-> category,
   priority |-> edgeClassifyPriority(text),
   extracted_entities |->
     [people |-> StringMatch(text, edgePeoplePattern, 0).matches,
      dates  |-> StringMatch(text, edgeDatesPattern, 0).matches],
   suggested_actions |-> edgeSuggestedActionsMap[category]]

edgeClassifyText(text) ==
  edgeClassification(text, edgeCategoryLoop(text, 1, 0, "general"))

\* classifyTask(title, description) of the edge function
edgeClassifyTask(t, d) == edgeClassifyText(toLowerCase(fullTextOf(t, d)))

-----------------------------------------------------------------------------
(* Task creation: taskStore.createTask, useTasks.createTask and the POST   *)
(* handler of the tasks edge function. Timestamps are left out.            *)

\* x || y
OrElse(x, y) == IF x \in {Undefined, Null, ""} THEN y ELSE x

\* the task object built by taskStore.createTask; suggested_actions is the
\* array the classification holds
NewTask(id, data, classification) ==
  [id |-> id,
   title |-> data.title,
   description |-> data.description,
   category |-> OrElse(data.category, classification.category),
   priority |-> OrElse(data.priority, classification.priority),
   status |-> "pending",
   assigned_to |-> data.assigned_to,
   due_date |-> data.due_date,
   extracted_entities |-> classification.extracted_entities,
   suggested_actions |-> classification.suggested_actions]

\* the history entry of a creation; { ...task } copies the fields, the
\* arrays stay shared
CreatedEntry(id, task) ==
  [id |-> id, task_id |-> task.id, action |-> "created", new_value |-> task]

\* taskStore.createTask(data), classifyTask having returned c
createTask(data, c) ==
  \E task \in {NewTask(nextId, data, c.result)} :
     /\ lastIndex' = c.lastIndex
     /\ tasks' = Append(tasks, task)
     /\ taskHistory' = Append(taskHistory, CreatedEntry(nextId + 1, task))
     /\ storeLog' = Append(storeLog, [op |-> "createTask", id |-> task.id])
     /\ nextId' = nextId + 2
     /\ lastCall' = [op |-> "taskStore.createTask", data |-> data,
                     status |-> "returned", returned |-> task]
     /\ UNCHANGED <<suggestedActions, dbVars>>

\* the values of an insert into public.tasks as sent by a client: arrays and
\* objects go by value
InsertValues(data, category, priority, entities, actions, createdBy) ==
  [title |-> data.title,
   description |-> data.description,
   category |-> category,
   priority |-> priority,
   status |-> "pending",
   assigned_to |-> OrElse(data.assigned_to, Null),
   due_date |-> OrElse(data.due_date, Null),
   extracted_entities |-> entities,
   suggested_actions |-> actions,
   created_by |-> createdBy]

\* the enum columns of public.tasks accept the values of their types only
InsertAccepted(values) ==
  /\ values.category \in TaskCategory
  /\ values.priority \in TaskPriority
  /\ values.status \in TaskStatus

\* the row of an accepted insert, id DEFAULT gen_random_uuid()
InsertedRow(id, values) ==
  [id |-> id,
   title |-> values.title,
   description |-> values.description,
   category |-> values.category,
   priority |-> values.priority,
   status |-> values.status,
   assigned_to |-> values.assigned_to,
   due_date |-> values.due_date,
   extracted_entities |-> values.extracted_entities,
   suggested_actions |-> values.suggested_actions,
   created_by |-> values.created_by]

\* What the migrations leave on public.tasks: the triggers, in the order of
\* their creation, and whether the function log_task_changes they all
\* execute writes a row for a DELETE.
NoSchema == [triggers |-> << >>, logsDelete |-> FALSE]

CreateTrigger(schema, name, events) ==
  [schema EXCEPT !.triggers = Append(@, [name |-> name, events |-> events])]

\* DROP TRIGGER IF EXISTS name
DropTrigger(schema, name) ==
  [schema EXCEPT !.triggers = SelectSeq(@, LAMBDA t : t.name # name)]

\* the schema migration: log_task_changes() with its DELETE branch writing a
\* row, and log_task_changes_trigger AFTER INSERT OR UPDATE OR DELETE
SchemaMigration(schema) ==
  CreateTrigger([schema EXCEPT !.logsDelete = TRUE],
                "log_task_changes_trigger", {"INSERT", "UPDATE", "DELETE"})

\* the trigger-fix migration: DROP TRIGGER IF EXISTS task_changes_trigger,
\* CREATE OR REPLACE FUNCTION log_task_changes() whose DELETE branch writes
\* nothing, CREATE TRIGGER task_changes_trigger AFTER INSERT OR UPDATE
TriggerFixMigration(schema) ==
  CreateTrigger([DropTrigger(schema, "task_changes_trigger") EXCEPT !.logsDelete = FALSE],
                "task_changes_trigger", {"INSERT", "UPDATE"})

\* the notifications migration creates public.notifications and nothing on
\* public.tasks
NotificationsMigration(schema) == schema

Schema == NotificationsMigration(TriggerFixMigration(SchemaMigration(NoSchema)))

\* the triggers that fire for a statement of the kind event
Firing(event) == SelectSeq(Schema.triggers, LAMBDA t : event \in t.events)

\* log_task_changes() for TG_OP = 'INSERT'
LogInsert(id, row) ==
  [id |-> id, task_id |-> row.id, action |-> "created", new_value |-> row,
   changed_by |-> row.created_by]

\* INSERT INTO public.tasks of accepted values: the row, and the history row
\* each trigger firing on INSERT writes
DbInsert(values) ==
  /\ dbTasks' = Append(dbTasks, InsertedRow(nextId, values))
  /\ dbHistory' = dbHistory \o [k \in 1..Len(Firing("INSERT")) |->
                                  LogInsert(nextId + k, InsertedRow(nextId, values))]
  /\ dbLog' = Append(dbLog, [op |-> "INSERT", id |-> nextId])
  /\ nextId' = nextId + 1 + Len(Firing("INSERT"))

\* useTasks.createTask(data) rendered with user, classifyTask returning c
\* when it is called
hookCreateTask(user, data, c) ==
  IF user = Null
  THEN /\ lastCall' = [op |-> "useTasks.createTask", data |-> data,
                       status |-> "null", returned |-> Null]
       /\ UNCHANGED <<lastIndex, suggestedActions, dbVars, nextId>>
  ELSE \E values \in {InsertValues(data,
                                   OrElse(data.category, c.result.category),
                                   OrElse(data.priority, c.result.priority),
                                   c.result.extracted_entities,
                                   Deref(c.result.suggested_actions),
                                   user)} :
          /\ lastIndex' = c.lastIndex
          /\ UNCHANGED suggestedActions
          /\ IF InsertAccepted(values)
             THEN /\ DbInsert(values)
                  /\ lastCall' = [op |-> "useTasks.createTask", data |-> data,
                                  status |-> "task",
                                  returned |-> InsertedRow(nextId, values)]
             ELSE /\ lastCall' = [op |-> "useTasks.createTask", data |-> data,
                                  status |-> "null", returned |-> Null]
                  /\ UNCHANGED <<dbVars, nextId>>

NoHeader == "no header"

\* supabase.auth.getUser(token)
getUser(token) == IF token = "Bearer valid" THEN "user-1" ELSE Null

\* the response to a POST request, with the statements the function issued
\* on tasks and task_history while it served the request
EdgeResponse(req, status, task, ops) ==
  [op |-> "POST", data |-> req.body, authorization |-> req.authorization,
   status |-> status, returned |-> task, ops |-> ops]

\* the edge function serving a POST request
edgePost(req) ==
  /\ UNCHANGED <<lastIndex, suggestedActions>>
  /\ IF req.authorization = NoHeader \/ getUser(req.authorization) = Null
     THEN /\ lastCall' = EdgeResponse(req, "401", Null, << >>)
          /\ UNCHANGED <<dbVars, nextId>>
     ELSE IF req.body.title \in {Undefined, ""} \/ req.body.description \in {Undefined, ""}
     THEN /\ lastCall' = EdgeResponse(req, "400", Null, << >>)
          /\ UNCHANGED <<dbVars, nextId>>
     ELSE \E classification \in {edgeClassifyTask(req.body.title, req.body.description)} :
          \E values \in {InsertValues(req.body,
                                      OrElse(req.body.category, classification.category),
                                      OrElse(req.body.priority, classification.priority),
                                      classification.extracted_entities,
                                      classification.suggested_actions,
                                      getUser(req.authorization))} :
             IF InsertAccepted(values)
             THEN /\ DbInsert(values)
                  /\ lastCall' = EdgeResponse(req, "201", InsertedRow(nextId, values),
                                               <<"insert tasks">>)
             ELSE /\ lastCall' = EdgeResponse(req, "500", Null, <<"insert tasks">>)
                  /\ UNCHANGED <<dbVars, nextId>>

-----------------------------------------------------------------------------
(* SpecCreate: tasks are created through the task store, the useTasks hook *)
(* and POST requests to the edge function.                                 *)

CreateTexts == {<<"", "">>, <<"Fix bug", "Urgent">>, <<"hello", "call Bob today">>}

CategoryOverrides == {Undefined, "", "finance", "other"}
PriorityOverrides == {Undefined, "low"}

CreateData(in, category, priority) ==
  [title |-> in[1], description |-> in[2], category |-> category,
   priority |-> priority, assigned_to |-> Undefined, due_date |-> Undefined]

TasksCreated == Len(tasks) + Len(dbTasks)

StoreCreateTask ==
  /\ TasksCreated < MaxTasks
  /\ \E in \in CreateTexts :
       \E c \in {classifyTask(in[1], in[2], lastIndex)} :
         \E category \in CategoryOverrides : \E priority \in PriorityOverrides :
            createTask(CreateData(in, category, priority), c)
  /\ UNCHANGED <<callerVars, uiVars>>

HookCreateTask ==
  /\ TasksCreated < MaxTasks
  /\ \E in \in CreateTexts :
       \E c \in {classifyTask(in[1], in[2], lastIndex)} :
         \E user \in {Null, "user-1"} :
           \E category \in CategoryOverrides : \E priority \in PriorityOverrides :
              hookCreateTask(user, CreateData(in, category, priority), c)
  /\ UNCHANGED storeVars
  /\ UNCHANGED <<callerVars, uiVars>>

EdgePost ==
  /\ TasksCreated < MaxTasks
  /\ \E in \in CreateTexts :
       \E authorization \in {NoHeader, "Bearer expired", "Bearer valid"} :
         \E category \in CategoryOverrides : \E priority \in PriorityOverrides :
            edgePost([authorization |-> authorization,
                      body |-> CreateData(in, category, priority)])
  /\ UNCHANGED storeVars
  /\ UNCHANGED <<callerVars, uiVars>>

NextCreate == StoreCreateTask \/ HookCreateTask \/ EdgePost

SpecCreate == Init /\ [][NextCreate]_vars

-----------------------------------------------------------------------------
(* Claims                                                                  *)

\* w occurs in s as a run of consecutive characters
Occurs(w, s) == \E i \in 1..Len(s) : \E j \in i..Len(s) : SubSeq(s, i, j) = w

\* the lowercased text of the last call
LowerFullText == toLowerCase(title \o " " \o description)

ScoredCategories == <<"scheduling", "finance", "technical", "safety">>

KeywordsOf(c) == {categoryKeywords[c][k] : k \in 1..Len(categoryKeywords[c])}

\* number of distinct keywords of c that occur in s
Score(c, s) == Cardinality({w \in KeywordsOf(c) : Occurs(w, s)})

HighestScore(s) ==
  CHOOSE n \in {Score(ScoredCategories[k], s) : k \in 1..4} :
     \A k \in 1..4 : Score(ScoredCategories[k], s) <= n

EarliestWithScore(n, s) ==
  ScoredCategories[CHOOSE k \in 1..4 :
                      /\ Score(ScoredCategories[k], s) = n
                      /\ \A j \in 1..(k - 1) : Score(ScoredCategories[j], s) # n]

HasKeyword(p, s) ==
  \E k \in 1..Len(priorityKeywords[p]) : Occurs(priorityKeywords[p][k], s)

\* C1: every classifyTask call returns, with a category among the five
\* categories and a priority among the three priorities.
C1_CategoryAndPriorityAlwaysSet ==
  pc = "returned" =>
     /\ result.category \in TaskCategory
     /\ result.priority \in TaskPriority

C1_Witness ==
  /\ pc = "returned"
  /\ title = "hello" /\ description = "hello"
  /\ result.category = "general"
  /\ result.priority = "low"

\* C2: when some category scores above zero, the category returned is the
\* earliest, in the order scheduling, finance, technical, safety, of those
\* with the highest number of distinct keywords occurring in the lowercased
\* text.
C2_HighestScoreEarliestWins ==
  (pc = "returned" /\ HighestScore(LowerFullText) > 0) =>
     result.category = EarliestWithScore(HighestScore(LowerFullText), LowerFullText)

\* a tie of scheduling and finance, and a later category beating an earlier
\* one with two keywords in one word
C2_Witness ==
  /\ pc = "returned"
  /\ \/ /\ Score("scheduling", LowerFullText) = 1
        /\ Score("finance", LowerFullText) = 1
        /\ title = "Invoice" /\ description = "meeting"
        /\ result.category = "scheduling"
     \/ /\ Score("scheduling", LowerFullText) = 1
        /\ Score("technical", LowerFullText) = 2
        /\ title = "meeting" /\ description = "Bugfixes"
        /\ result.category = "technical"

\* C3: the priority is high when a high keyword occurs in the lowercased
\* text, otherwise medium when a medium keyword occurs, otherwise low.
C3_PriorityByPrecedence ==
  pc = "returned" =>
     result.priority = IF HasKeyword("high", LowerFullText) THEN "high"
                       ELSE IF HasKeyword("medium", LowerFullText) THEN "medium"
                       ELSE "low"

\* a high and a medium keyword together
C3_Witness ==
  /\ pc = "returned"
  /\ title = "soon" /\ description = "Urgent"
  /\ HasKeyword("medium", LowerFullText)
  /\ result.priority = "high"

\* C4: the category is general exactly when no keyword of the four scored
\* categories occurs in the lowercased text.
C4_GeneralIffNoKeyword ==
  pc = "returned" =>
     (result.category = "general"
        <=> \A k \in 1..4 : Score(ScoredCategories[k], LowerFullText) = 0)

\* a non-empty text with a priority keyword and no category keyword
C4_Witness ==
  /\ pc = "returned"
  /\ title = "Urgent hello"
  /\ result.category = "general"

\* C5: two classifyTask calls of one process with the same title and
\* description return the same value, whatever was called in between.
C5_SameInputSameResult ==
  \A j \in 1..Len(calls) : \A k \in 1..Len(calls) :
     (calls[j].title = calls[k].title /\ calls[j].description = calls[k].description)
        => /\ calls[j].returned = calls[k].returned
           /\ mutations = 0 => calls[j].actions = calls[k].actions

\* the same input with dates and verbs twice, another input in between
C5_Witness ==
  /\ Len(calls) >= 3
  /\ calls[1].title = "Fix today" /\ calls[3].title = "Fix today"
  /\ calls[2].title = "call"
  /\ calls[3].returned.extracted_entities.dates = <<"today">>
  /\ calls[3].returned.extracted_entities.actionVerbs = <<"fix">>

\* C6: the suggested_actions of a returned result is the fixed list of the
\* returned category, of 3 to 4 entries.
C6_SuggestedActionsOfCategory ==
  pc = "returned" =>
     /\ Deref(result.suggested_actions) = suggestedActionsTable[result.category]
     /\ Len(Deref(result.suggested_actions)) \in 3..4

C6_Witness ==
  /\ pc = "returned"
  /\ result.category = "finance"
  /\ Deref(result.suggested_actions) =
       <<"Check budget", "Get approval", "Generate invoice", "Update records">>

\* C7: classifyTask('', '') returns general, low and four empty lists.
C7_EmptyInput ==
  (pc = "returned" /\ title = "" /\ description = "") =>
     /\ result.category = "general"
     /\ result.priority = "low"
     /\ result.extracted_entities =
          [dates |-> << >>, people |-> << >>, locations |-> << >>,
           actionVerbs |-> << >>]

C7_Witness == pc = "returned" /\ title = "" /\ description = "" /\ result # NoResult

\* C8: runClassificationTests reports five passed tests and no failed one.
C8_BuiltInTestsPass ==
  pc = "tested" => (report.passed = 5 /\ report.failed = 0)

C8_Witness ==
  /\ pc = "tested"
  /\ Len(report.results) = 5
  /\ report.results[1] = <<"pass", "Scheduling category detection">>

\* C9: every result is returned with the fixed list of its category as its
\* suggested_actions, whatever the caller wrote to results returned earlier.
C9_ResultsShareNothing ==
  \A k \in 1..Len(calls) :
     calls[k].actions = suggestedActionsTable[calls[k].returned.category]

\* the array behind the suggested_actions of a created task: the task store
\* holds the classifier's array, a table row its content
StoredActions(call) ==
  IF call.op = "taskStore.createTask" THEN Deref(call.returned.suggested_actions)
  ELSE call.returned.suggested_actions

IsStored(call) ==
  IF call.op = "taskStore.createTask"
  THEN \E k \in 1..Len(tasks) : tasks[k] = call.returned
  ELSE \E k \in 1..Len(dbTasks) : dbTasks[k] = call.returned

\* an override was passed
Given(x) == x # Undefined /\ x # ""

\* C10: a task created through the task store, the useTasks hook or a POST
\* request is stored with the override category when one was passed and the
\* category of classifyTask(title, description) otherwise, likewise for the
\* priority, with the extracted_entities and suggested_actions that
\* classifyTask returns for its title and description, and status pending.
C10_StoredClassification ==
  lastCall.status \in {"returned", "task", "201"} =>
     \A c \in {classifyTask(lastCall.data.title, lastCall.data.description,
                            lastIndex).result} :
        /\ IsStored(lastCall)
        /\ lastCall.returned.category =
             IF Given(lastCall.data.category) THEN lastCall.data.category
             ELSE c.category
        /\ lastCall.returned.priority =
             IF Given(lastCall.data.priority) THEN lastCall.data.priority
             ELSE c.priority
        /\ lastCall.returned.extracted_entities = c.extracted_entities
        /\ StoredActions(lastCall) = Deref(c.suggested_actions)
        /\ lastCall.returned.status = "pending"

-----------------------------------------------------------------------------
(* SpecDates: one classifyTask call on a text of date words.               *)

\* a caller calls classifyTask on one of the inputs
CallClassifyTaskOn(inputs) ==
  /\ pc = "idle"
  /\ \E in \in inputs : ClassifyTask(in[1], in[2])
  /\ pc' = "returned"
  /\ UNCHANGED <<report, calls, mutations>>
  /\ UNCHANGED <<createVars, uiVars>>

\* this/next, units and weekdays in mixed case, and one day in two cases
DateVocabulary == {"this", "Next", "week", "year", "Monday", "Today", "today"}

DateInputs == InputsOver(DateVocabulary)

CallOnDates == CallClassifyTaskOn(DateInputs)

SpecDates == Init /\ [][CallOnDates]_vars

\* the entries of a list
Entries(xs) == {xs[k] : k \in 1..Len(xs)}

\* phrase stands in s between characters that are no word characters
ContainsWords(phrase, s) ==
  \E i \in 1..(Len(s) - Len(phrase) + 1) :
     /\ SubSeq(s, i, i + Len(phrase) - 1) = phrase
     /\ i = 1 \/ SubSeq(s, i - 1, i - 1) \notin WordSet
     /\ i + Len(phrase) - 1 = Len(s)
          \/ SubSeq(s, i + Len(phrase), i + Len(phrase)) \notin WordSet

RelativePhrases ==
  {p \o " " \o x : p \in {"this", "next"},
                   x \in {"week", "month", "year"} \cup Entries(Weekdays)}

\* C11: a text that contains 'this X' or 'next X' as whole words, X one of
\* week, month, year or a weekday, in any letter case, has the lowercased
\* phrase among its dates.
C11_RelativePhrasesExtracted ==
  pc = "returned" =>
     \A phrase \in RelativePhrases :
        ContainsWords(phrase, LowerFullText)
           => phrase \in Entries(result.extracted_entities.dates)

\* C14: the dates are lowercase strings without repetition: 'next Monday'
\* gives 'next monday' once, 'Today' with 'today' gives the one entry
\* 'today'.
C14_DatesLowercaseOnce ==
  pc = "returned" =>
     \A dates \in {result.extracted_entities.dates} :
        /\ \A i \in 1..Len(dates) : dates[i] = toLowerCase(dates[i])
        /\ \A i \in 1..Len(dates) : \A j \in 1..Len(dates) :
              dates[i] = dates[j] => i = j
        /\ ContainsWords("next monday", LowerFullText)
              => Cardinality({i \in 1..Len(dates) : dates[i] = "next monday"}) = 1
        /\ (title = "Today" /\ description = "today") => dates = <<"today">>

C14_Witness ==
  /\ pc = "returned"
  /\ \/ /\ title = "Today" /\ description = "today"
        /\ result.extracted_entities.dates = <<"today">>
     \/ /\ title = "Next Monday" /\ description = ""
        /\ result.extracted_entities.dates = <<"monday", "next monday">>

-----------------------------------------------------------------------------
(* SpecPeople: one classifyTask call on a text of cue words, names and a   *)
(* handle.                                                                 *)

\* cue words alone and inside a longer word, names in both cases, a handle
PeopleVocabulary ==
  {"contact", "standby", "assigned to", "John Smith", "Ann", "john", "@bob_1"}

PeopleInputs == InputsOver(PeopleVocabulary)

CallOnPeople == CallClassifyTaskOn(PeopleInputs)

SpecPeople == Init /\ [][CallOnPeople]_vars

\* the text of the last call as written
FullText == title \o " " \o description

\* the pieces of s between its spaces
RECURSIVE SplitFrom(_, _, _)
SplitFrom(s, i, word) ==
  IF i > Len(s) THEN <<word>>
  ELSE IF SubSeq(s, i, i) = " " THEN <<word>> \o SplitFrom(s, i + 1, "")
  ELSE SplitFrom(s, i + 1, word \o SubSeq(s, i, i))

Tokens(s) == SplitFrom(s, 1, "")

\* an uppercase letter followed by one or more lowercase letters
IsCapitalizedWord(w) ==
  /\ Len(w) >= 2
  /\ SubSeq(w, 1, 1) \in UpperSet
  /\ \A i \in 2..Len(w) : SubSeq(w, i, i) \in LowerSet

CueWords == {"with", "by", "contact", "notify", "tell", "inform", "call"}

\* a cue word ends at token i
CueEndsAt(tokens, i) ==
  \/ tokens[i] \in CueWords
  \/ i > 1 /\ tokens[i] = "to" /\ tokens[i - 1] \in {"assign", "assigned"}

\* the one or two capitalized words from token j on
NameAt(tokens, j) ==
  IF j + 1 <= Len(tokens) /\ IsCapitalizedWord(tokens[j + 1])
  THEN tokens[j] \o " " \o tokens[j + 1]
  ELSE tokens[j]

\* C12: where a cue word stands as a word and a capitalized word follows,
\* people contains that word, together with the capitalized word after it
\* when there is one, as written and without the cue word.
C12_NamesAfterCueWords ==
  pc = "returned" =>
     \A tokens \in {Tokens(FullText)} :
        \A i \in 1..(Len(tokens) - 1) :
           (CueEndsAt(tokens, i) /\ IsCapitalizedWord(tokens[i + 1]))
              => NameAt(tokens, i + 1) \in Entries(result.extracted_entities.people)

C12_Witness ==
  /\ pc = "returned"
  /\ title = "contact" /\ description = "John Smith"
  /\ result.extracted_entities.people = <<"John Smith">>

CueStrings ==
  {"with", "by", "assign to", "assigned to", "contact", "notify", "tell",
   "inform", "call"}

\* one capitalized word, or two with a space between
IsName(p) ==
  \A tokens \in {Tokens(p)} :
     /\ Len(tokens) \in 1..2
     /\ \A k \in 1..Len(tokens) : IsCapitalizedWord(tokens[k])

\* the word characters of s from offset i on
RECURSIVE WordRun(_, _)
WordRun(s, i) ==
  IF i > Len(s) \/ SubSeq(s, i, i) \notin WordSet THEN ""
  ELSE SubSeq(s, i, i) \o WordRun(s, i + 1)

\* the handles of s: the word characters after each '@' that has some
Handles(s) ==
  {WordRun(s, i + 1) : i \in {k \in 1..Len(s) : SubSeq(s, k, k) = "@"}} \ {""}

-----------------------------------------------------------------------------
(* SpecVerbs: one classifyTask call on a text of verbs, alone, in other    *)
(* case and inside longer words.                                           *)

VerbVocabulary == {"Fix", "fix", "updates", "update", "meeting", "MEET", "re-deploy"}

VerbInputs == InputsOver(VerbVocabulary)

CallOnVerbs == CallClassifyTaskOn(VerbInputs)

SpecVerbs == Init /\ [][CallOnVerbs]_vars

ActionVerbs ==
  {"schedule", "create", "review", "complete", "send", "call", "email",
   "update", "fix", "check", "prepare", "submit", "approve", "cancel",
   "organize", "setup", "plan", "meet", "discuss", "analyze", "implement",
   "deploy"}

\* C15: actionVerbs holds, once each and in lowercase, exactly the verbs of
\* the 22-verb vocabulary that stand in the text as whole words in any
\* letter case; a verb inside a longer word does not count.
C15_VerbsAsWholeWords ==
  pc = "returned" =>
     \A verbs \in {result.extracted_entities.actionVerbs} :
        /\ Cardinality(ActionVerbs) = 22
        /\ Entries(verbs) = {v \in ActionVerbs : ContainsWords(v, LowerFullText)}
        /\ \A i \in 1..Len(verbs) : \A j \in 1..Len(verbs) :
              verbs[i] = verbs[j] => i = j

C15_Witness ==
  /\ pc = "returned"
  /\ \/ /\ title = "updates" /\ description = "MEET"
        /\ result.extracted_entities.actionVerbs = <<"meet">>
     \/ /\ title = "Fix fix" /\ description = ""
        /\ result.extracted_entities.actionVerbs = <<"fix">>

-----------------------------------------------------------------------------
(* SpecLocations: one classifyTask call on a text of place words and the   *)
(* tokens after them.                                                      *)

LocationVocabulary == {"room", "Office 5", "site", "Ab12", "Lab", "at", "building"}

LocationInputs == InputsOver(LocationVocabulary)

CallOnLocations == CallClassifyTaskOn(LocationInputs)

SpecLocations == Init /\ [][CallOnLocations]_vars

PlaceWords == {"room", "office", "building", "site"}

\* the letters and digits of s from offset i on
RECURSIVE AlnumRun(_, _)
AlnumRun(s, i) ==
  IF i > Len(s) \/ SubSeq(s, i, i) \notin AlnumSet THEN ""
  ELSE SubSeq(s, i, i) \o AlnumRun(s, i + 1)

\* the first offset from i on that holds no space
RECURSIVE SkipSpaces(_, _)
SkipSpaces(s, i) ==
  IF i <= Len(s) /\ SubSeq(s, i, i) = " " THEN SkipSpaces(s, i + 1) ELSE i

\* the tokens of s that follow a place word and whitespace; the place word
\* is looked for in lower, the lowercased s
TokensAfterPlaceWords(s, lower) ==
  {AlnumRun(s, SkipSpaces(s, i[1] + Len(i[2]))) :
     i \in {k \in (1..Len(s)) \X PlaceWords :
              /\ k[1] + Len(k[2]) <= Len(s)
              /\ SubSeq(lower, k[1], k[1] + Len(k[2]) - 1) = k[2]
              /\ k[1] = 1 \/ SubSeq(lower, k[1] - 1, k[1] - 1) \notin WordSet
              /\ SubSeq(s, k[1] + Len(k[2]), k[1] + Len(k[2])) = " "}} \ {""}

\* C16: every alphanumeric token that follows one of the words room, office,
\* building, site (in any letter case) and whitespace is among the
\* locations, as written, also when such words follow each other.
C16_TokensAfterPlaceWords ==
  pc = "returned" =>
     TokensAfterPlaceWords(FullText, LowerFullText)
        \subseteq Entries(result.extracted_entities.locations)

-----------------------------------------------------------------------------
(* SpecRepeats: one classifyTask call on a text in which a date, a name, a *)
(* place and a verb can each be matched more than once.                    *)

RepeatVocabulary == {"Today", "today", "contact Bob", "@Bob", "room Ab", "Fix", "fix"}

RepeatInputs == InputsOver(RepeatVocabulary)

CallOnRepeats == CallClassifyTaskOn(RepeatInputs)

SpecRepeats == Init /\ [][CallOnRepeats]_vars

NoRepeats(xs) == \A i \in 1..Len(xs) : \A j \in 1..Len(xs) : xs[i] = xs[j] => i = j

\* C17: none of the lists dates, people, locations, actionVerbs of a result
\* holds a string twice.
C17_NoRepeatedEntries ==
  pc = "returned" =>
     /\ NoRepeats(result.extracted_entities.dates)
     /\ NoRepeats(result.extracted_entities.people)
     /\ NoRepeats(result.extracted_entities.locations)
     /\ NoRepeats(result.extracted_entities.actionVerbs)

\* the two person patterns give the same name, the two location patterns
\* the same place
C17_Witness ==
  /\ pc = "returned"
  /\ title = "contact Bob" /\ description = "@Bob"
  /\ result.extracted_entities.people = <<"Bob">>

-----------------------------------------------------------------------------
(* SpecBoundary: one classifyTask call on a text that is cut into title    *)
(* and description at different places.                                    *)

\* words and pairs of words, so that one text has several cuts
BoundaryVocabulary ==
  {"this", "week", "Monday", "this week", "week Monday", "Fix next", "room",
   "contact"}

BoundaryInputs == InputsOver(BoundaryVocabulary)

CallOnBoundary == CallClassifyTaskOn(BoundaryInputs)

SpecBoundary == Init /\ [][CallOnBoundary]_vars

\* the other inputs that give the text of the last call
OtherCuts ==
  {in \in BoundaryInputs :
     in # <<title, description>> /\ in[1] \o " " \o in[2] = FullText}

\* C18: a call with another title and description that give the same
\* title + ' ' + description returns the same result, and what spans the
\* cut counts: 'this' with 'week' is medium, '... next' with 'Monday' has the
\* date 'next monday', a cue or place word at the end of the title takes the
\* name or place at the start of the description.
C18_ResultDependsOnConcatenation ==
  pc = "returned" =>
     /\ \A in \in OtherCuts : classifyTask(in[1], in[2], lastIndex).result = result
     /\ (title = "this" /\ description = "week") => result.priority = "medium"
     /\ (title = "Fix next" /\ description = "Monday")
           => "next monday" \in Entries(result.extracted_entities.dates)
     /\ (title = "contact" /\ description = "Monday")
           => result.extracted_entities.people = <<"Monday">>
     /\ (title = "room" /\ description = "Monday")
           => result.extracted_entities.locations = <<"Monday">>
     /\ (title = "Fix next" /\ description = "contact")
           => /\ result.category = "technical"
              /\ result.extracted_entities.actionVerbs = <<"fix">>

C18_Witness ==
  /\ pc = "returned"
  /\ title = "this" /\ description = "week Monday"
  /\ <<"this week", "Monday">> \in OtherCuts
  /\ result.priority = "medium"
  /\ result.extracted_entities.dates = <<"monday", "this week">>

-----------------------------------------------------------------------------
(* SpecPriority: one classifyTask call on a text of low keywords, alone    *)
(* and with keywords of the other lists.                                   *)

PriorityVocabulary ==
  {"low priority", "Low", "Priority", "whenever", "later", "soon", "hello"}

PriorityInputs == InputsOver(PriorityVocabulary)

CallOnPriorities == CallClassifyTaskOn(PriorityInputs)

SpecPriority == Init /\ [][CallOnPriorities]_vars

\* C19: a text that contains 'low priority' has priority high; a low
\* keyword changes no priority: with it the text is high, medium or low as
\* the high and medium keywords alone decide.
C19_LowKeywordsHaveNoEffect ==
  pc = "returned" =>
     /\ Occurs("low priority", LowerFullText) => result.priority = "high"
     /\ HasKeyword("low", LowerFullText) =>
          /\ result.priority = "high" <=> HasKeyword("high", LowerFullText)
          /\ result.priority = "medium" <=>
               (~HasKeyword("high", LowerFullText) /\ HasKeyword("medium", LowerFullText))

C19_Witness ==
  /\ pc = "returned"
  /\ \/ /\ title = "low priority" /\ description = "later"
        /\ result.priority = "high"
     \/ /\ title = "whenever" /\ description = "soon"
        /\ result.priority = "medium"

-----------------------------------------------------------------------------
(* Claims on created tasks                                                 *)

\* C20: every task in the task store, and every task the useTasks hook has
\* inserted, has as its suggested_actions the fixed list of its stored
\* category, also when the category was passed as an override.
C20_StoredActionsOfStoredCategory ==
  /\ \A k \in 1..Len(tasks) :
        tasks[k].category \in TaskCategory
           => Deref(tasks[k].suggested_actions) = suggestedActionsTable[tasks[k].category]
  /\ (lastCall.op = "useTasks.createTask" /\ lastCall.status = "task")
        => lastCall.returned.suggested_actions
             = suggestedActionsTable[lastCall.returned.category]

-----------------------------------------------------------------------------
(* The task store after creation: updateTask, deleteTask, getTaskById.     *)
(* Timestamps are left out, and with them the order in which getTaskById   *)
(* and getTasks sort what they return.                                     *)

\* successful updateTask calls
MaxUpdates == 2

\* mutant: an id that no task has is taken for the first task
findIndexOrFirst(id) == IF \E k \in 1..Len(tasks) : tasks[k].id = id THEN CHOOSE k \in 1..Len(tasks) : tasks[k].id = id ELSE IF tasks = << >> THEN 0 ELSE 1

\* tasks.findIndex(t => t.id === id), counted from 1; 0 stands for -1
findIndex(id) == IF \E k \in 1..Len(tasks) : tasks[k].id = id THEN CHOOSE k \in 1..Len(tasks) : tasks[k].id = id /\ \A j \in 1..(k - 1) : tasks[j].id # id ELSE 0

\* { ...task, ...updates }: the keys of updates replace those of task
Spread(task, updates) ==
  [f \in DOMAIN task \cup DOMAIN updates |->
     IF f \in DOMAIN updates THEN updates[f] ELSE task[f]]

\* mutant: a change to completed is recorded as any other change of status
UpdateActionStatusOnly(updates, oldTask) == IF "status" \in DOMAIN updates /\ updates.status # oldTask.status THEN "status_changed" ELSE "updated"

\* updates.status && updates.status !== oldTask.status
\*   ? (updates.status === 'completed' ? 'completed' : 'status_changed') : 'updated'
UpdateAction(updates, oldTask) ==
  IF /\ "status" \in DOMAIN updates
     /\ updates.status \notin {Undefined, Null, ""}
     /\ updates.status # oldTask.status
  THEN IF updates.status = "completed" THEN "completed" ELSE "status_changed"
  ELSE "updated"

\* the history entry of an update
UpdatedEntry(id, oldTask, newTask, action) ==
  [id |-> id, task_id |-> oldTask.id, action |-> action,
   old_value |-> oldTask, new_value |-> newTask]

\* a call of the store and what it returned; status tells a returned task
\* from null, and true from false
StoreReturn(op, id, updates, status, returned) ==
  [op |-> op, id |-> id, updates |-> updates, status |-> status,
   returned |-> returned]

\* taskStore.updateTask(id, updates)
updateTask(id, updates) ==
  IF findIndex(id) = 0
  THEN /\ lastCall' = StoreReturn("taskStore.updateTask", id, updates, "null", Null)
       /\ UNCHANGED <<tasks, taskHistory, storeLog, nextId>>
  ELSE \E taskIndex \in {findIndex(id)} :
       \E newTask \in {Spread(tasks[taskIndex], updates)} :
          /\ tasks' = [tasks EXCEPT ![taskIndex] = newTask]
          /\ taskHistory' =
               Append(taskHistory,
                      UpdatedEntry(nextId, tasks[taskIndex], newTask,
                                   UpdateAction(updates, tasks[taskIndex])))
          /\ storeLog' = Append(storeLog, [op |-> "updateTask", id |-> id])
          /\ nextId' = nextId + 1
          /\ lastCall' = StoreReturn("taskStore.updateTask", id, updates, "task", newTask)

\* xs.splice(k, 1)
Splice(xs, k) == SubSeq(xs, 1, k - 1) \o SubSeq(xs, k + 1, Len(xs))

\* mutant: the history of the deleted task goes with it
deleteTaskWithHistory(id) == IF findIndex(id) = 0 THEN lastCall' = StoreReturn("taskStore.deleteTask", id, << >>, "false", FALSE) /\ UNCHANGED <<tasks, taskHistory, storeLog, nextId>> ELSE tasks' = Splice(tasks, findIndex(id)) /\ taskHistory' = SelectSeq(taskHistory, LAMBDA h : h.task_id # id) /\ lastCall' = StoreReturn("taskStore.deleteTask", id, << >>, "true", TRUE) /\ UNCHANGED <<storeLog, nextId>>

\* taskStore.deleteTask(id)
deleteTask(id) ==
  IF findIndex(id) = 0
  THEN /\ lastCall' = StoreReturn("taskStore.deleteTask", id, << >>, "false", FALSE)
       /\ UNCHANGED <<tasks, taskHistory, storeLog, nextId>>
  ELSE /\ tasks' = Splice(tasks, findIndex(id))
       /\ lastCall' = StoreReturn("taskStore.deleteTask", id, << >>, "true", TRUE)
       /\ UNCHANGED <<taskHistory, storeLog, nextId>>

\* the entries of taskHistory with task_id = id (their order by changed_at is
\* not modelled)
HistoryOf(id) == {taskHistory[k] : k \in {j \in 1..Len(taskHistory) : taskHistory[j].task_id = id}}

\* taskStore.getTaskById(id): { task, history }
getTaskById(id) ==
  [task |-> IF findIndex(id) = 0 THEN Null ELSE tasks[findIndex(id)],
   history |-> HistoryOf(id)]

-----------------------------------------------------------------------------
(* SpecStore: tasks are created, updated, deleted and looked up in the     *)
(* task store, by the ids the store handed out and by an id it never did.  *)

StoreTexts == {<<"Fix bug", "Urgent">>, <<"hello", "">>}

\* a change of status to each value, and a change that leaves the status out
UpdateInputs ==
  {[status |-> "in_progress"], [status |-> "completed"], [status |-> "pending"],
   [title |-> "Renamed"]}

\* the ids of the tasks created so far, and one that was never handed out
CalledIds == {0} \cup {storeLog[k].id : k \in 1..Len(storeLog)}

Created == Cardinality({k \in 1..Len(storeLog) : storeLog[k].op = "createTask"})
Updated == Cardinality({k \in 1..Len(storeLog) : storeLog[k].op = "updateTask"})

CreateInStore ==
  /\ Created < MaxTasks
  /\ \E in \in StoreTexts :
       \E c \in {classifyTask(in[1], in[2], lastIndex)} :
          createTask(CreateData(in, Undefined, Undefined), c)
  /\ UNCHANGED <<callerVars, uiVars>>

UpdateInStore ==
  /\ Updated < MaxUpdates
  /\ \E id \in CalledIds : \E updates \in UpdateInputs : updateTask(id, updates)
  /\ UNCHANGED <<classifierVars, callerVars, uiVars, dbVars>>

DeleteInStore ==
  /\ \E id \in CalledIds : deleteTask(id)
  /\ UNCHANGED <<classifierVars, callerVars, uiVars, dbVars>>

GetTaskById ==
  /\ \E id \in CalledIds :
        lastCall' = StoreReturn("taskStore.getTaskById", id, << >>,
                                IF findIndex(id) = 0 THEN "null" ELSE "task",
                                getTaskById(id))
  /\ UNCHANGED <<classifierVars, callerVars, uiVars, storeVars, dbVars, nextId>>

NextStore == CreateInStore \/ UpdateInStore \/ DeleteInStore \/ GetTaskById

SpecStore == Init /\ [][NextStore]_vars

\* no task of the store has the id
NotStored(id) == \A k \in 1..Len(tasks) : tasks[k].id # id

\* the calls of the log made on the task id
LoggedFor(id) == {k \in 1..Len(storeLog) : storeLog[k].id = id}

\* the history holds one entry per logged call, in call order
HistoryFollowsLog ==
  /\ Len(taskHistory) = Len(storeLog)
  /\ \A k \in 1..Len(storeLog) :
        /\ taskHistory[k].task_id = storeLog[k].id
        /\ taskHistory[k].action = "created" <=> storeLog[k].op = "createTask"

\* C23: the history of the task store holds exactly one entry per createTask
\* call (action 'created') and one per updateTask call that returned a task,
\* in call order; a deleteTask call takes the task out of the task list and
\* leaves the history as it was, so that getTaskById of a deleted id returns
\* task null together with every entry recorded for the id.
C23_HistoryAppendOnly ==
  /\ [](/\ HistoryFollowsLog
        /\ (lastCall.op = "taskStore.deleteTask" /\ lastCall.status = "true")
              => NotStored(lastCall.id)
        /\ (lastCall.op = "taskStore.getTaskById" /\ lastCall.id # 0
              /\ NotStored(lastCall.id))
              => /\ lastCall.status = "null"
                 /\ Cardinality(lastCall.returned.history)
                      = Cardinality(LoggedFor(lastCall.id)))
  /\ [][lastCall'.op = "taskStore.deleteTask" => taskHistory' = taskHistory]_vars

C23_Witness ==
  /\ lastCall.op = "taskStore.getTaskById"
  /\ lastCall.id # 0
  /\ tasks = << >>
  /\ lastCall.status = "null"
  /\ Cardinality(lastCall.returned.history) = 3
  /\ Len(taskHistory) = 3

\* C24: an updateTask or deleteTask call with an id that no task of the store
\* has, the id of a task deleted earlier included, returns null (updateTask)
\* or false (deleteTask) and leaves the task list and the history unchanged.
C24_UnknownIdChangesNothing ==
  [][(lastCall'.op \in {"taskStore.updateTask", "taskStore.deleteTask"}
        /\ NotStored(lastCall'.id))
       => /\ lastCall'.status
               = (IF lastCall'.op = "taskStore.updateTask" THEN "null" ELSE "false")
          /\ tasks' = tasks
          /\ taskHistory' = taskHistory]_vars

\* an update of a task deleted earlier has returned null
C24_Witness ==
  /\ lastCall.op = "taskStore.updateTask"
  /\ lastCall.id \in {storeLog[k].id : k \in 1..Len(storeLog)}
  /\ lastCall.status = "null"
  /\ tasks = << >>
  /\ Len(taskHistory) = 2


-----------------------------------------------------------------------------
(* Updates and deletes on public.tasks, and the history its triggers write *)

MaxStatements == 3

\* log_task_changes(), TG_OP = 'UPDATE', with the first branch taken for every
\* change of status
LogActionStatusOnly(oldRow, newRow) == IF oldRow.status # newRow.status THEN "status_changed" ELSE "updated"

\* log_task_changes(), TG_OP = 'UPDATE': the action of the row it writes
LogAction(oldRow, newRow) == IF oldRow.status # newRow.status THEN (IF newRow.status = "completed" THEN "completed" ELSE "status_changed") ELSE "updated"

\* log_task_changes() for TG_OP = 'UPDATE', auth.uid() being uid
LogUpdate(id, oldRow, newRow, uid) ==
  [id |-> id, task_id |-> newRow.id, action |-> LogAction(oldRow, newRow),
   old_value |-> oldRow, new_value |-> newRow, changed_by |-> uid]

\* the position of the row of public.tasks with this id, 0 when there is none
RowIndex(id) ==
  IF \E k \in 1..Len(dbTasks) : dbTasks[k].id = id
  THEN CHOOSE k \in 1..Len(dbTasks) : dbTasks[k].id = id
  ELSE 0

\* UPDATE public.tasks SET updates WHERE id = id, on an existing row: the new
\* row, and the history row each trigger firing on UPDATE writes
DbUpdate(id, updates, uid) ==
  /\ dbTasks' = [dbTasks EXCEPT ![RowIndex(id)] = Spread(@, updates)]
  /\ dbHistory' = dbHistory \o [k \in 1..Len(Firing("UPDATE")) |->
                                  LogUpdate(nextId + k - 1, dbTasks[RowIndex(id)],
                                            Spread(dbTasks[RowIndex(id)], updates), uid)]
  /\ dbLog' = Append(dbLog, [op |-> "UPDATE", id |-> id])
  /\ nextId' = nextId + Len(Firing("UPDATE"))

\* DELETE FROM public.tasks WHERE id = id, on an existing row: the triggers
\* firing on DELETE write nothing, and ON DELETE CASCADE removes the task's
\* rows of task_history
DbDelete(id) ==
  /\ dbTasks' = Splice(dbTasks, RowIndex(id))
  /\ dbHistory' = SelectSeq(dbHistory, LAMBDA h : h.task_id # id)
  /\ dbLog' = Append(dbLog, [op |-> "DELETE", id |-> id])
  /\ UNCHANGED nextId

HookReturn(op, id, updates, status, returned) ==
  [op |-> op, id |-> id, updates |-> updates, status |-> status, returned |-> returned]

\* the rows the policies on public.tasks let this session see
Visible(user, id) == user # Null /\ RowIndex(id) # 0

\* useTasks.updateTask(id, updates) with the session of user
hookUpdateTask(user, id, updates) ==
  IF Visible(user, id)
  THEN /\ DbUpdate(id, updates, user)
       /\ lastCall' = HookReturn("useTasks.updateTask", id, updates, "task",
                                 Spread(dbTasks[RowIndex(id)], updates))
  ELSE /\ lastCall' = HookReturn("useTasks.updateTask", id, updates, "null", Null)
       /\ UNCHANGED <<dbVars, nextId>>

\* useTasks.deleteTask(id) with the session of user
hookDeleteTask(user, id) ==
  /\ lastCall' = HookReturn("useTasks.deleteTask", id, << >>, "true", TRUE)
  /\ IF Visible(user, id)
     THEN DbDelete(id)
     ELSE UNCHANGED <<dbVars, nextId>>

DbTexts == {<<"Fix bug", "Urgent">>}

DbUpdates == {[status |-> "in_progress"], [status |-> "completed"], [status |-> "pending"],
              [title |-> "Renamed"]}

DbIds == {0} \cup {dbLog[k].id : k \in 1..Len(dbLog)}

HookInsert ==
  /\ Len(dbLog) < MaxStatements
  /\ \E in \in DbTexts :
       \E c \in {classifyTask(in[1], in[2], lastIndex)} :
         \E user \in {Null, "user-1"} :
            hookCreateTask(user, CreateData(in, Undefined, Undefined), c)
  /\ UNCHANGED storeVars
  /\ UNCHANGED <<callerVars, uiVars>>

HookUpdateTask ==
  /\ Len(dbLog) < MaxStatements
  /\ \E user \in {Null, "user-1"} : \E id \in DbIds : \E updates \in DbUpdates :
        hookUpdateTask(user, id, updates)
  /\ UNCHANGED <<classifierVars, callerVars, uiVars, storeVars>>

HookDeleteTask ==
  /\ Len(dbLog) < MaxStatements
  /\ \E user \in {Null, "user-1"} : \E id \in DbIds :
        hookDeleteTask(user, id)
  /\ UNCHANGED <<classifierVars, callerVars, uiVars, storeVars>>

NextDb == HookInsert \/ HookUpdateTask \/ HookDeleteTask

SpecDb == Init /\ [][NextDb]_vars

-----------------------------------------------------------------------------
(* SpecHistory: tasks are created and updated in the task store and, with  *)
(* the useTasks hook, in the database.                                     *)

MaxChanges == 4

\* the tasks created and updated so far, in the store and in the database
Changes == Len(storeLog) + Len(dbLog)

NextHistory ==
  \/ Changes < MaxChanges /\ CreateInStore
  \/ Changes < MaxChanges /\ UpdateInStore
  \/ Changes < MaxChanges /\ HookInsert
  \/ Changes < MaxChanges /\ HookUpdateTask

SpecHistory == Init /\ [][NextHistory]_vars

\* the action the history is to carry for a change of status from old to new
ActionFor(old, new) ==
  IF new # old /\ new = "completed" THEN "completed"
  ELSE IF new # old THEN "status_changed"
  ELSE "updated"

UpdateEntries == {taskHistory[k] : k \in {j \in 1..Len(taskHistory) : taskHistory[j].action # "created"}}

UpdateRows == {dbHistory[k] : k \in {j \in 1..Len(dbHistory) : dbHistory[j].action # "created"}}

\* C25: the history entry of an update carries 'completed' exactly when the
\* status changes to completed from a different status, 'status_changed'
\* exactly when it changes to a different status that is not completed, and
\* 'updated' otherwise; the task store and the database trigger choose the
\* same action for the same old and new status.
C25_HistoryAction ==
  /\ \A h \in UpdateEntries : h.action = ActionFor(h.old_value.status, h.new_value.status)
  /\ \A g \in UpdateRows : g.action = ActionFor(g.old_value.status, g.new_value.status)
  /\ \A h \in UpdateEntries : \A g \in UpdateRows :
        (h.old_value.status = g.old_value.status /\ h.new_value.status = g.new_value.status)
           => h.action = g.action

C25_Witness ==
  \E h \in UpdateEntries : \E g \in UpdateRows :
     /\ h.action = "completed" /\ g.action = "completed"
     /\ h.old_value.status = "pending" /\ g.old_value.status = "pending"
     /\ h.new_value.status = "completed" /\ g.new_value.status = "completed"

\* the rows of task_history after a step that were not there before it
AddedRows == {k \in 1..Len(dbHistory') : \A j \in 1..Len(dbHistory) : dbHistory[j].id # dbHistory'[k].id}

\* C22: with the migrations applied in order, every INSERT and every UPDATE
\* on tasks adds exactly one row to task_history, and a DELETE adds none.
C22_OneHistoryRowPerStatement ==
  [][dbLog' # dbLog =>
       IF dbLog'[Len(dbLog')].op = "DELETE"
       THEN Cardinality(AddedRows) = 0
       ELSE Cardinality(AddedRows) = 1]_vars

\* C22, for DELETE alone
C22_DeleteAddsNoRow ==
  [][(dbLog' # dbLog /\ dbLog'[Len(dbLog')].op = "DELETE") => Cardinality(AddedRows) = 0]_vars

-----------------------------------------------------------------------------
(* The edge function: every method it serves                               *)

\* url.searchParams.get('id') of a request without the parameter
NoTaskId == -1

\* column ILIKE '%search%'
Ilike(column, search) ==
  \E i \in 1..(Len(column) + 1) :
     /\ i + Len(search) - 1 <= Len(column)
     /\ SubSeq(toLowerCase(column), i, i + Len(search) - 1) = toLowerCase(search)

\* the conditions the filters add to the query on tasks
Matches(row, fs) ==
  /\ fs.status \in {Undefined, Null, ""} \/ row.status = fs.status
  /\ fs.category \in {Undefined, Null, ""} \/ row.category = fs.category
  /\ fs.priority \in {Undefined, Null, ""} \/ row.priority = fs.priority
  /\ \/ fs.search \in {Undefined, Null, ""}
     \/ Ilike(row.title, fs.search)
     \/ Ilike(row.description, fs.search)

Reverse(xs) == [k \in 1..Len(xs) |-> xs[Len(xs) + 1 - k]]

\* from('tasks').select('*').order('created_at', {ascending: false}) with
\* the filters, on these rows
SelectTasks(rows, fs) == Reverse(SelectSeq(rows, LAMBDA row : Matches(row, fs)))

\* from('task_history').select('*').eq('task_id', id)
SelectHistory(id) == SelectSeq(dbHistory, LAMBDA h : h.task_id = id)

\* a request carries a header only
AuthorizedByHeader(req) == req.authorization # NoHeader

\* the request passes both checks of the function: it carries an
\* Authorization header, and getUser resolves its token to a user
Authorized(req) == req.authorization # NoHeader /\ getUser(req.authorization) # Null

ServeResponse(req, status, returned, ops) ==
  [op |-> req.method, id |-> req.id, data |-> req.body, filters |-> req.filters,
   authorization |-> req.authorization, status |-> status, returned |-> returned,
   ops |-> ops]

\* case 'GET'
edgeGet(req) ==
  /\ UNCHANGED <<dbVars, nextId>>
  /\ IF req.id # NoTaskId
     THEN IF RowIndex(req.id) = 0
          THEN lastCall' = ServeResponse(req, "404", Null, <<"select tasks">>)
          ELSE lastCall' = ServeResponse(req, "200",
                                         [task |-> dbTasks[RowIndex(req.id)],
                                          history |-> SelectHistory(req.id)],
                                         <<"select tasks", "select task_history">>)
     ELSE lastCall' = ServeResponse(req, "200", SelectTasks(dbTasks, req.filters),
                                    <<"select tasks">>)

\* case 'PATCH': the service role sees every row, and auth.uid() is null in
\* the trigger
edgePatch(req) ==
  IF req.id = NoTaskId
  THEN /\ lastCall' = ServeResponse(req, "400", Null, << >>)
       /\ UNCHANGED <<dbVars, nextId>>
  ELSE IF RowIndex(req.id) = 0
  THEN /\ lastCall' = ServeResponse(req, "500", Null, <<"update tasks">>)
       /\ UNCHANGED <<dbVars, nextId>>
  ELSE /\ DbUpdate(req.id, req.body, Null)
       /\ lastCall' = ServeResponse(req, "200", Spread(dbTasks[RowIndex(req.id)], req.body),
                                    <<"update tasks">>)

\* case 'DELETE'
edgeDelete(req) ==
  IF req.id = NoTaskId
  THEN /\ lastCall' = ServeResponse(req, "400", Null, << >>)
       /\ UNCHANGED <<dbVars, nextId>>
  ELSE /\ lastCall' = ServeResponse(req, "200", TRUE, <<"delete tasks">>)
       /\ IF RowIndex(req.id) = 0
          THEN UNCHANGED <<dbVars, nextId>>
          ELSE DbDelete(req.id)

\* serve(req): the whole function
serve(req) ==
  IF req.method = "OPTIONS"
  THEN /\ lastCall' = ServeResponse(req, "200", Null, << >>)
       /\ UNCHANGED <<dbVars, nextId>>
  ELSE IF ~Authorized(req)
  THEN /\ lastCall' = ServeResponse(req, "401", Null, << >>)
       /\ UNCHANGED <<dbVars, nextId>>
  ELSE CASE req.method = "GET" -> edgeGet(req)
         [] req.method = "POST" -> edgePost([authorization |-> req.authorization,
                                             body |-> req.body])
         [] req.method = "PATCH" -> edgePatch(req)
         [] req.method = "DELETE" -> edgeDelete(req)
         [] OTHER -> /\ lastCall' = ServeResponse(req, "405", Null, << >>)
                     /\ UNCHANGED <<dbVars, nextId>>

Request(method, authorization, id, body, fs) ==
  [method |-> method, authorization |-> authorization, id |-> id, body |-> body,
   filters |-> fs]

Headers == {NoHeader, "Bearer expired", "Bearer valid"}

EdgeIds == {NoTaskId, 0} \cup {dbLog[k].id : k \in 1..Len(dbLog)}

EdgeFilters == {NoFilters, [NoFilters EXCEPT !.status = "completed"],
                [NoFilters EXCEPT !.search = "FIX"]}

ServeGet ==
  /\ \E authorization \in Headers : \E id \in EdgeIds : \E fs \in EdgeFilters :
        serve(Request("GET", authorization, id, Undefined, fs))
  /\ UNCHANGED <<classifierVars, callerVars, uiVars, storeVars>>

ServePost ==
  /\ Len(dbLog) < MaxStatements
  /\ \E in \in DbTexts : \E authorization \in Headers :
        serve(Request("POST", authorization, NoTaskId,
                      CreateData(in, Undefined, Undefined), NoFilters))
  /\ UNCHANGED <<classifierVars, callerVars, uiVars, storeVars>>

ServePatch ==
  /\ Len(dbLog) < MaxStatements
  /\ \E authorization \in Headers : \E id \in EdgeIds : \E body \in DbUpdates :
        serve(Request("PATCH", authorization, id, body, NoFilters))
  /\ UNCHANGED <<classifierVars, callerVars, uiVars, storeVars>>

ServeDelete ==
  /\ Len(dbLog) < MaxStatements
  /\ \E authorization \in Headers : \E id \in EdgeIds :
        serve(Request("DELETE", authorization, id, Undefined, NoFilters))
  /\ UNCHANGED <<classifierVars, callerVars, uiVars, storeVars>>

ServeOther ==
  /\ \E method \in {"OPTIONS", "PUT"} : \E authorization \in Headers :
        serve(Request(method, authorization, NoTaskId, Undefined, NoFilters))
  /\ UNCHANGED <<classifierVars, callerVars, uiVars, storeVars>>

NextEdge == ServeGet \/ ServePost \/ ServePatch \/ ServeDelete \/ ServeOther

SpecEdge == Init /\ [][NextEdge]_vars

\* C28: for every request other than OPTIONS, the edge function issues no
\* read, insert, update or delete on tasks or task_history unless the request
\* carries an Authorization header whose token resolves to a user; a request
\* without the header or with a token that resolves to no user is answered
\* 401 before any statement is issued.
C28_NoStatementWithoutUser ==
  [][lastCall'.op # "OPTIONS" =>
       /\ (lastCall'.ops # << >> \/ dbVars' # dbVars) => lastCall'.authorization = "Bearer valid"
       /\ lastCall'.authorization # "Bearer valid" =>
             /\ lastCall'.status = "401"
             /\ lastCall'.ops = << >>
             /\ dbVars' = dbVars]_vars

C28_Witness ==
  /\ lastCall.op = "DELETE"
  /\ lastCall.authorization = "Bearer expired"
  /\ lastCall.status = "401"
  /\ \E k \in 1..Len(dbTasks) : dbTasks[k].id = lastCall.id
  /\ dbHistory # << >>

-----------------------------------------------------------------------------
(* The TaskForm component                                                  *)

\* the effect on [title, description]: the classification shown in the form
\* and the lastIndex the classifier leaves
Classified(t, d, li) ==
  IF t # "" \/ d # ""
  THEN [classification |-> classifyTask(t, d, li).result,
        lastIndex |-> classifyTask(t, d, li).lastIndex]
  ELSE [classification |-> NoClassification, lastIndex |-> li]

\* onChange of the title input, and the effect it schedules
setTitle(v) ==
  \E c \in {Classified(v, form.description, lastIndex)} :
     /\ form' = [form EXCEPT !.title = v, !.classification = c.classification]
     /\ lastIndex' = c.lastIndex

\* onChange of the description input, and the effect it schedules
setDescription(v) ==
  \E c \in {Classified(form.title, v, lastIndex)} :
     /\ form' = [form EXCEPT !.description = v, !.classification = c.classification]
     /\ lastIndex' = c.lastIndex

\* onValueChange of an override select: v as TaskCategory || null
OverrideOf(v) == IF v = "" THEN Null ELSE v

\* the effect on [task, isOpen]: the form opened to edit task, or to create
\* a task when task is null; the effect on [title, description] then
\* classifies the text the form was given
openForm(task) ==
  IF task # NoTask
  THEN \E c \in {Classified(task.title, task.description, lastIndex)} :
          /\ form' = [EmptyForm EXCEPT !.title = task.title,
                                       !.description = task.description,
                                       !.overrideCategory = task.category,
                                       !.overridePriority = task.priority,
                                       !.status = task.status, !.task = task,
                                       !.classification = c.classification]
          /\ lastIndex' = c.lastIndex
  ELSE /\ form' = EmptyForm
       /\ UNCHANGED lastIndex

\* classification?.category, classification?.priority
CategoryOf(classification) == IF classification = NoClassification THEN Undefined ELSE classification.category
PriorityOf(classification) == IF classification = NoClassification THEN Undefined ELSE classification.priority

\* the argument handleSubmit passes to onSubmit
SubmitData(f) ==
  [title |-> trim(f.title),
   description |-> trim(f.description),
   category |-> OrElse(f.overrideCategory, CategoryOf(f.classification)),
   priority |-> OrElse(f.overridePriority, PriorityOf(f.classification)),
   assigned_to |-> OrElse(trim(f.assignedTo), Undefined),
   due_date |-> f.dueDate,
   status |-> IF f.task # NoTask THEN f.status ELSE Undefined]

\* resetForm(): every state of the form, the task prop staying
resetForm(f) == [EmptyForm EXCEPT !.task = f.task]

\* handleSubmit(e), with the form as it was when it was called
handleSubmit ==
  IF trim(form.title) = "" \/ trim(form.description) = ""
  THEN UNCHANGED <<lastCall, form>>
  ELSE /\ lastCall' = [op |-> "TaskForm.onSubmit", status |-> "submitted", form |-> form,
                       data |-> SubmitData(form)]
       /\ form' = resetForm(form)

FormTitles == {"", "Fix bug"}

FormDescriptions == {"", "  ", "Urgent"}

CategoryItems == {"auto", "finance", "general"}

PriorityItems == {"auto", "high"}

EditedTasks ==
  {NoTask, [id |-> 1, title |-> "Pay invoice", description |-> "today",
          category |-> "finance", priority |-> "high", status |-> "in_progress"]}

MaxFormEvents == 4

formOthers == <<suggestedActions, callerVars, createVars, notifVars, fetchVars>>

\* the form handles one more event
FormEvent ==
  /\ formEvents < MaxFormEvents
  /\ formEvents' = formEvents + 1

TypeTitle ==
  /\ FormEvent
  /\ \E v \in FormTitles : setTitle(v)
  /\ UNCHANGED formOthers

TypeDescription ==
  /\ FormEvent
  /\ \E v \in FormDescriptions : setDescription(v)
  /\ UNCHANGED formOthers

ChooseCategory ==
  /\ FormEvent
  /\ \E v \in CategoryItems : form' = [form EXCEPT !.overrideCategory = OverrideOf(v)]
  /\ UNCHANGED <<lastIndex, formOthers>>

ChoosePriority ==
  /\ FormEvent
  /\ \E v \in PriorityItems : form' = [form EXCEPT !.overridePriority = OverrideOf(v)]
  /\ UNCHANGED <<lastIndex, formOthers>>

OpenForm ==
  /\ FormEvent
  /\ \E task \in EditedTasks : openForm(task)
  /\ UNCHANGED formOthers

HandleSubmit ==
  /\ FormEvent
  /\ handleSubmit
  /\ UNCHANGED <<classifierVars, callerVars, storeVars, dbVars, nextId, notifVars, fetchVars>>

NextForm == TypeTitle \/ TypeDescription \/ ChooseCategory \/ ChoosePriority \/ OpenForm \/ HandleSubmit

SpecForm == Init /\ [][NextForm]_vars

\* C21: the category handleSubmit passes to onSubmit is undefined or one of
\* the five task categories, and the priority is undefined or one of the
\* three task priorities; with 'Auto-detect' chosen in an override select
\* the submitted value is the one the classifier gave for the text of the form.
C21_SubmittedCategoryAndPriority ==
  lastCall.op = "TaskForm.onSubmit" =>
     /\ lastCall.data.category \in {Undefined} \cup TaskCategory
     /\ lastCall.data.priority \in {Undefined} \cup TaskPriority
     /\ lastCall.form.overrideCategory \in {Null, "auto"} =>
           lastCall.data.category = CategoryOf(lastCall.form.classification)
     /\ lastCall.form.overridePriority \in {Null, "auto"} =>
           lastCall.data.priority = PriorityOf(lastCall.form.classification)

\* C21, for a form in which no override select was touched or a category or
\* priority was chosen in it
C21_WithoutAutoDetectItem ==
  (lastCall.op = "TaskForm.onSubmit" /\ lastCall.form.overrideCategory # "auto"
     /\ lastCall.form.overridePriority # "auto") =>
     /\ lastCall.data.category \in {Undefined} \cup TaskCategory
     /\ lastCall.data.priority \in {Undefined} \cup TaskPriority

-----------------------------------------------------------------------------
(* The useNotifications hook, rendered for a signed-in user                *)

MaxNotifications == 2
MaxPending == 2

\* typedData.filter(n => !n.read).length
Unread(ns) == Cardinality({k \in 1..Len(ns) : ~ns[k].read})

\* from('notifications').select('*').eq('user_id', user.id)
\*   .order('created_at', {ascending: false}), of no more than 50 rows
SelectNotifications == Reverse(dbNotifications)

\* the realtime event of a change of one row
Event(eventType, row) == [eventType |-> eventType, row |-> row]

\* Math.max(0, prev - 1)
DecrementToZero(prev) == IF prev - 1 > 0 THEN prev - 1 ELSE 0

\* fetchNotifications() up to its await: the query is sent
fetchNotifications == notifFetches' = Append(notifFetches, [data |-> SelectNotifications])

\* fetchNotifications() after its await, for the k-th call in flight
fetchNotificationsResolved(k) ==
  /\ notifications' = notifFetches[k].data
  /\ unreadCount' = Unread(notifFetches[k].data)
  /\ notifFetches' = Splice(notifFetches, k)

\* the callback of the realtime subscription, for the oldest event
onNotificationEvent ==
  /\ notifEvents' = Tail(notifEvents)
  /\ IF Head(notifEvents).eventType = "INSERT"
     THEN /\ notifications' = <<Head(notifEvents).row>> \o notifications
          /\ unreadCount' = unreadCount + 1
          /\ UNCHANGED notifFetches
     ELSE /\ fetchNotifications
          /\ UNCHANGED <<notifications, unreadCount>>

\* markAsRead(notificationId)
markAsRead(id) ==
  /\ dbNotifications' = [k \in 1..Len(dbNotifications) |->
                           IF dbNotifications[k].id = id
                           THEN [dbNotifications[k] EXCEPT !.read = TRUE]
                           ELSE dbNotifications[k]]
  /\ notifEvents' = notifEvents \o
                      [k \in 1..Len(SelectSeq(dbNotifications, LAMBDA n : n.id = id)) |->
                         Event("UPDATE", [id |-> id, read |-> TRUE])]
  /\ notifications' = [k \in 1..Len(notifications) |->
                         IF notifications[k].id = id
                         THEN [notifications[k] EXCEPT !.read = TRUE]
                         ELSE notifications[k]]
  /\ unreadCount' = DecrementToZero(unreadCount)

\* markAllAsRead()
markAllAsRead ==
  /\ dbNotifications' = [k \in 1..Len(dbNotifications) |->
                           [dbNotifications[k] EXCEPT !.read = TRUE]]
  /\ notifEvents' = notifEvents \o
                      [k \in 1..Len(SelectSeq(dbNotifications, LAMBDA n : ~n.read)) |->
                         Event("UPDATE", [SelectSeq(dbNotifications, LAMBDA n : ~n.read)[k]
                                            EXCEPT !.read = TRUE])]
  /\ notifications' = [k \in 1..Len(notifications) |-> [notifications[k] EXCEPT !.read = TRUE]]
  /\ unreadCount' = 0

\* deleteNotification(notificationId)
deleteNotification(id) ==
  /\ dbNotifications' = SelectSeq(dbNotifications, LAMBDA n : n.id # id)
  /\ notifEvents' = notifEvents \o
                      [k \in 1..Len(SelectSeq(dbNotifications, LAMBDA n : n.id = id)) |->
                         Event("DELETE", SelectSeq(dbNotifications, LAMBDA n : n.id = id)[k])]
  /\ notifications' = SelectSeq(notifications, LAMBDA n : n.id # id)
  /\ UNCHANGED unreadCount

\* clearAllNotifications()
clearAllNotifications ==
  /\ dbNotifications' = << >>
  /\ notifEvents' = notifEvents \o
                      [k \in 1..Len(dbNotifications) |-> Event("DELETE", dbNotifications[k])]
  /\ notifications' = << >>
  /\ unreadCount' = 0

notifOthers == <<classifierVars, callerVars, storeVars, dbVars, lastCall, formVars, fetchVars>>

Pending == Len(notifEvents) + Len(notifFetches)

LocalIds == {notifications[k].id : k \in 1..Len(notifications)}

\* a notification for the user is inserted, by a reminder or an assignment
NotificationInserted ==
  /\ nextId <= MaxNotifications
  /\ Pending < MaxPending
  /\ dbNotifications' = Append(dbNotifications, [id |-> nextId, read |-> FALSE])
  /\ notifEvents' = Append(notifEvents, Event("INSERT", [id |-> nextId, read |-> FALSE]))
  /\ nextId' = nextId + 1
  /\ UNCHANGED <<notifications, unreadCount, notifFetches, notifOthers>>

NotificationEvent ==
  /\ notifEvents # << >>
  /\ onNotificationEvent
  /\ UNCHANGED <<dbNotifications, nextId, notifOthers>>

FetchNotificationsResolved ==
  /\ \E k \in 1..Len(notifFetches) : fetchNotificationsResolved(k)
  /\ UNCHANGED <<dbNotifications, notifEvents, nextId, notifOthers>>

MarkAsRead ==
  /\ Pending < MaxPending
  /\ \E id \in LocalIds : markAsRead(id)
  /\ UNCHANGED <<notifFetches, nextId, notifOthers>>

MarkAllAsRead ==
  /\ Pending < MaxPending
  /\ notifications # << >>
  /\ markAllAsRead
  /\ UNCHANGED <<notifFetches, nextId, notifOthers>>

DeleteNotification ==
  /\ Pending < MaxPending
  /\ \E id \in LocalIds : deleteNotification(id)
  /\ UNCHANGED <<notifFetches, nextId, notifOthers>>

ClearAllNotifications ==
  /\ Pending < MaxPending
  /\ notifications # << >>
  /\ clearAllNotifications
  /\ UNCHANGED <<notifFetches, nextId, notifOthers>>

NextNotifications ==
  \/ NotificationInserted \/ NotificationEvent \/ FetchNotificationsResolved
  \/ MarkAsRead \/ MarkAllAsRead \/ DeleteNotification \/ ClearAllNotifications

SpecNotifications == Init /\ [][NextNotifications]_vars

\* C26: in every interleaving of fetches, marks, deletes and realtime events,
\* unreadCount is the number of notifications held locally whose read is false.
C26_UnreadCountMatches == unreadCount = Unread(notifications)

-----------------------------------------------------------------------------
(* The useTasks hook fetching tasks, rendered for a signed-in user. The    *)
(* queries succeed, and each is answered from the rows of the moment it is *)
(* sent.                                                                   *)

\* the counts fetchCounts computes from the rows of its query
CountsOf(rows) ==
  [pending |-> Len(SelectSeq(rows, LAMBDA t : t.status = "pending")),
   in_progress |-> Len(SelectSeq(rows, LAMBDA t : t.status = "in_progress")),
   completed |-> Len(SelectSeq(rows, LAMBDA t : t.status = "completed"))]

\* fetchTasks() up to await query, the hook rendered with the filters fs
fetchTasks(fs) ==
  /\ loading' = TRUE
  /\ fetches' = Append(fetches, [awaiting |-> "query", filters |-> fs,
                                 data |-> SelectTasks(dbTasks, fs)])

\* fetchTasks() from await query to the await in fetchCounts, for the k-th
\* call in flight
fetchTasksQueryResolved(k) ==
  /\ hookTasks' = fetches[k].data
  /\ fetches' = [fetches EXCEPT ![k] = [awaiting |-> "counts", filters |-> @.filters,
                                        data |-> CountsOf(dbTasks)]]
  /\ UNCHANGED <<counts, loading>>

\* fetchTasks() from the await in fetchCounts to its end
fetchTasksCountsResolved(k) ==
  /\ counts' = fetches[k].data
  /\ loading' = FALSE
  /\ fetches' = Splice(fetches, k)
  /\ UNCHANGED hookTasks

HookFilters == {NoFilters, [NoFilters EXCEPT !.status = "completed"],
                [NoFilters EXCEPT !.search = "FIX"]}

fetchOthers == <<callerVars, storeVars, formVars, notifVars>>

PendingFetches == Len(fetches) + taskEvents

\* the component is rendered with other filters: fetchTasks is a new
\* function, and the effect of the initial fetch calls it
SetFilters ==
  /\ PendingFetches < MaxPending
  /\ \E fs \in HookFilters \ {filters} :
        /\ filters' = fs
        /\ fetchTasks(fs)
  /\ UNCHANGED <<hookTasks, counts, taskEvents, classifierVars, dbVars, nextId, lastCall,
                 fetchOthers>>

\* a task is created with the hook, and the change is published
TaskInserted ==
  /\ PendingFetches < MaxPending
  /\ Len(dbTasks) < MaxTasks
  /\ \E in \in DbTexts :
       \E c \in {classifyTask(in[1], in[2], lastIndex)} :
          hookCreateTask("user-1", CreateData(in, Undefined, Undefined), c)
  /\ taskEvents' = taskEvents + 1
  /\ UNCHANGED <<filters, hookTasks, counts, loading, fetches, fetchOthers>>

\* a task is updated with the hook, and the change is published
TaskUpdated ==
  /\ PendingFetches < MaxPending
  /\ Len(dbLog) < MaxStatements
  /\ \E k \in 1..Len(dbTasks) : \E updates \in {[status |-> "completed"]} :
        hookUpdateTask("user-1", dbTasks[k].id, updates)
  /\ taskEvents' = taskEvents + 1
  /\ UNCHANGED <<filters, hookTasks, counts, loading, fetches, classifierVars, fetchOthers>>

\* the callback of the realtime subscription
TaskEvent ==
  /\ taskEvents > 0
  /\ taskEvents' = taskEvents - 1
  /\ fetchTasks(filters)
  /\ UNCHANGED <<filters, hookTasks, counts, classifierVars, dbVars, nextId, lastCall,
                 fetchOthers>>

FetchTasksQueryResolved ==
  /\ \E k \in 1..Len(fetches) : fetches[k].awaiting = "query" /\ fetchTasksQueryResolved(k)
  /\ UNCHANGED <<filters, taskEvents, classifierVars, dbVars, nextId, lastCall, fetchOthers>>

FetchTasksCountsResolved ==
  /\ \E k \in 1..Len(fetches) : fetches[k].awaiting = "counts" /\ fetchTasksCountsResolved(k)
  /\ UNCHANGED <<filters, taskEvents, classifierVars, dbVars, nextId, lastCall, fetchOthers>>

NextFetch ==
  \/ SetFilters \/ TaskInserted \/ TaskUpdated \/ TaskEvent
  \/ FetchTasksQueryResolved \/ FetchTasksCountsResolved

SpecFetch == Init /\ [][NextFetch]_vars

\* C27: when the fetchTasks calls that overlapped have completed, tasks is
\* the result of the query with the filters the hook is rendered with, never
\* that of an older query that resolved later, and loading is false.
C27_TasksOfCurrentFilters ==
  (fetches = << >> /\ taskEvents = 0) =>
     /\ hookTasks = SelectTasks(dbTasks, filters)
     /\ loading = FALSE

\* C27, for loading alone
C27_LoadingFalseWhenIdle == fetches = << >> => loading = FALSE
=============================================================================
